---- MODULE Spec2Model ----
(***************************************************************************)
(* Billing enforcement layer of Fairlx (src/src/lib/billing-primitives.ts): *)
(* the billing account resolver, the status guards, the billing cycle lock  *)
(* and the usage write guard, over a document store without transactions.   *)
(***************************************************************************)
EXTENDS Integers, Sequences, FiniteSets, TLC

(***************************************************************************)
(* Bounds of the model.                                                     *)
(***************************************************************************)
\* Largest value of the millisecond clock read by new Date().
MaxClock == 3
\* Usage events the metering writer records at most.
MaxEvents == 2
\* Calls the sequential caller makes at most.
MaxSeqCalls == 3
\* Accepted status changes of the account at most.
MaxChanges == 4
\* Billing accounts in the store at most.
MaxAccounts == 2
\* The last instant a billing cycle can end at.
MaxInstant == 4
\* Hours a grace period ends before or after the clock at most.
MaxGraceHours == 50
\* Hours in a tick of the alert job's clock.
TickHours == 12
\* Ticks the alert job's clock advances at most.
MaxTicks == 1
\* The month's usage at most.
MaxUsage == 2
\* Usage events in the store of the reconciliation at most.
MaxReconEvents == 2

(***************************************************************************)
(* Values.                                                                  *)
(***************************************************************************)
\* billingCycleLockedAt: null (also an omitted lockedAt); timestamps are 1..MaxClock.
null == 0
\* An absent (undefined, hence falsy) id of a lookup or of a workspace field.
none == ""

Times == 1..MaxClock

ACTIVE == "ACTIVE"
DUE == "DUE"
SUSPENDED == "SUSPENDED"
BillingStatus == {ACTIVE, DUE, SUSPENDED}

ORG == "ORG"
PERSONAL == "PERSONAL"

\* The account every lock and unlock call of the model names.
BillingAccountId == "acc_o1"

\* The processes that close and reopen billing periods.
Workers == {"p1", "p2"}
\* The caller of the sequential runs.
Caller == "p1"

VARIABLES
    accounts,       \* the billing accounts collection: a set of documents
    workspaces,     \* the workspaces collection: a set of documents
    now,            \* the wall clock (in hours for the alert job)
    pc,             \* pc[p]: where worker p is in its lock or unlock call
    lockTimestamp,  \* lockTimestamp[p]: the timestamp p's lock call took
    result,         \* result[p]: what p's last call returned
    wpc,            \* where the usage writer is
    usageEvents,    \* number of usage events recorded
    raceOn,         \* history: both workers read "unlocked" before either wrote
    lockHeld,       \* history: a lock call returned success and no unlock was called since
    seqLog,         \* history: the calls of the sequential caller
    call,           \* the last call of a lookup or guard function, with its outcome
    statusLog,      \* history: the statuses the account has had, oldest first
    transition,     \* the last status change asked for, with its outcome
    alerts,         \* the usage alerts collection: alerts[id] is a document
    monthUsage,     \* what the usage events of the current month add up to
    job,            \* the alert evaluation job: its position, batch and results
    visits,         \* history: the alerts the current run has come to, in order
    dispatched,     \* history: the notifications that went out, [alertId, at]
    aggregations,   \* the usage aggregations collection: a set of documents
    usageEventDocs, \* the usage events collection: a sequence of documents
    invoices,       \* the invoices collection: a set of documents
    mode,           \* process.env.NODE_ENV
    members,        \* the organization members collection: a set of documents
    removals,       \* removals[p]: where remover p is, and the member it removes
    connectedUsers, \* the socket server's map: userId -> set of socket ids
    sockets         \* sockets[s]: whether s is connected, and its userId property

storeVars == <<accounts, workspaces>>
lockVars == <<now, pc, lockTimestamp, result, raceOn, lockHeld>>
writerVars == <<wpc, usageEvents>>
guardVars == <<call>>
statusVars == <<statusLog, transition>>
alertVars == <<alerts, monthUsage, job, visits, dispatched>>
reconVars == <<aggregations, usageEventDocs>>
checkVars == <<invoices, mode>>
orgVars == <<members, removals>>
socketVars == <<connectedUsers, sockets>>
vars == <<storeVars, lockVars, writerVars, seqLog, guardVars, statusVars, alertVars, reconVars, checkVars, orgVars, socketVars>>

(***************************************************************************)
(* The document store.                                                      *)
(***************************************************************************)
\* A billing account document.
Account(id, type, organizationId, userId, status, locked, lockedAt) ==
    [id |-> id, type |-> type, organizationId |-> organizationId,
     userId |-> userId, billingStatus |-> status,
     isBillingCycleLocked |-> locked, billingCycleLockedAt |-> lockedAt]

\* getDocument: the document of that id (the call throws when there is none).
HasDocument(coll, id) == \E d \in coll : d.id = id
GetDocument(coll, id) == CHOOSE d \in coll : d.id = id

\* updateDocument of the two lock fields, in one write.
UpdateLockFields(coll, id, locked, lockedAt) ==
    {IF d.id = id
         THEN [d EXCEPT !.isBillingCycleLocked = locked,
                        !.billingCycleLockedAt = lockedAt]
         ELSE d : d \in coll}

(***************************************************************************)
(* lockBillingCycle and unlockBillingCycle, one action per store call.      *)
(***************************************************************************)
NoResult == [op |-> "none"]
LockResult(success, alreadyLocked, lockedAt, error) ==
    [op |-> "lock", success |-> success, alreadyLocked |-> alreadyLocked,
     lockedAt |-> lockedAt, error |-> error]
UnlockResult(ok) == [op |-> "unlock", ok |-> ok]

\* The sequential caller's log: an entry opens when a call starts and is
\* completed when the call returns.
LogStart(log, op) ==
    IF log
        THEN Append(seqLog,
                 [op |-> op,
                  lockedBefore |-> GetDocument(accounts, BillingAccountId).isBillingCycleLocked,
                  result |-> NoResult, wrote |-> FALSE])
        ELSE seqLog
LogReturn(log, res, wrote) ==
    IF log
        THEN [seqLog EXCEPT ![Len(seqLog)].result = res, ![Len(seqLog)].wrote = wrote]
        ELSE seqLog

\* Both workers have read "unlocked" in their current lock call and neither
\* has written yet.
BothReadUnlocked(pcs) == \A q \in Workers : pcs[q] = "lock_write"

\* const lockTimestamp = new Date().toISOString()
LockStart(p, log) ==
    /\ pc[p] \in {"idle", "done"}
    /\ log => Len(seqLog) < MaxSeqCalls
    /\ pc' = [pc EXCEPT ![p] = "lock_read"]
    /\ lockTimestamp' = [lockTimestamp EXCEPT ![p] = now]
    /\ result' = [result EXCEPT ![p] = NoResult]
    /\ raceOn' = FALSE
    /\ seqLog' = LogStart(log, "lock")
    /\ UNCHANGED <<storeVars, now, lockHeld, writerVars, guardVars, statusVars, alertVars, reconVars, checkVars, orgVars, socketVars>>

\* Steps 1 and 2: read the account; return alreadyLocked when it is locked.
LockRead(p, log) ==
    /\ pc[p] = "lock_read"
    /\ \E fails \in BOOLEAN :
        IF fails \/ ~HasDocument(accounts, BillingAccountId)
            THEN /\ pc' = [pc EXCEPT ![p] = "done"]
                 /\ result' = [result EXCEPT ![p] = LockResult(FALSE, FALSE, null, "error")]
                 /\ seqLog' = LogReturn(log, result'[p], FALSE)
                 /\ raceOn' = FALSE
            ELSE LET account == GetDocument(accounts, BillingAccountId) IN
                 IF account.isBillingCycleLocked = TRUE
                     THEN /\ pc' = [pc EXCEPT ![p] = "done"]
                          /\ result' = [result EXCEPT ![p] =
                                 LockResult(FALSE, TRUE, account.billingCycleLockedAt, none)]
                          /\ seqLog' = LogReturn(log, result'[p], FALSE)
                          /\ raceOn' = FALSE
                     ELSE /\ pc' = [pc EXCEPT ![p] = "lock_write"]
                          /\ raceOn' = BothReadUnlocked(pc')
                          /\ UNCHANGED <<result, seqLog>>
    /\ UNCHANGED <<storeVars, now, lockTimestamp, lockHeld, writerVars, guardVars, statusVars, alertVars, reconVars, checkVars, orgVars, socketVars>>

\* A write that sets the flag and forgets the timestamp.
LockWriteFlagOnly(p) ==
    UpdateLockFields(accounts, BillingAccountId, TRUE,
                     GetDocument(accounts, BillingAccountId).billingCycleLockedAt)

\* Step 3: write the lock with our timestamp.
LockWriteFields(p) ==
    UpdateLockFields(accounts, BillingAccountId, TRUE, lockTimestamp[p])

LockWrite(p, log) ==
    /\ pc[p] = "lock_write"
    /\ \E fails \in BOOLEAN :
        IF fails
            THEN /\ pc' = [pc EXCEPT ![p] = "done"]
                 /\ result' = [result EXCEPT ![p] = LockResult(FALSE, FALSE, null, "error")]
                 /\ seqLog' = LogReturn(log, result'[p], FALSE)
                 /\ raceOn' = FALSE
                 /\ UNCHANGED accounts
            ELSE /\ accounts' = LockWriteFields(p)
                 /\ pc' = [pc EXCEPT ![p] = "lock_verify"]
                 /\ UNCHANGED <<result, seqLog, raceOn>>
    /\ UNCHANGED <<workspaces, now, lockTimestamp, lockHeld, writerVars, guardVars, statusVars, alertVars, reconVars, checkVars, orgVars, socketVars>>

\* A verification with the comparison the wrong way round.
VerifyResultInverted(verifyAccount, ts) ==
    IF verifyAccount.billingCycleLockedAt = ts
        THEN LockResult(FALSE, TRUE, verifyAccount.billingCycleLockedAt, none)
        ELSE LockResult(TRUE, FALSE, ts, none)

\* Steps 4 and 5: read again and compare the stored timestamp with ours.
VerifyResult(verifyAccount, ts) ==
    IF verifyAccount.billingCycleLockedAt # ts
        THEN LockResult(FALSE, TRUE, verifyAccount.billingCycleLockedAt, none)
        ELSE LockResult(TRUE, FALSE, ts, none)

LockVerify(p, log) ==
    /\ pc[p] = "lock_verify"
    /\ pc' = [pc EXCEPT ![p] = "done"]
    /\ \E fails \in BOOLEAN :
        IF fails
            THEN /\ result' = [result EXCEPT ![p] = LockResult(FALSE, FALSE, null, "error")]
                 /\ raceOn' = FALSE
            ELSE /\ result' = [result EXCEPT ![p] =
                        VerifyResult(GetDocument(accounts, BillingAccountId), lockTimestamp[p])]
                 /\ UNCHANGED raceOn
    /\ lockHeld' = (lockHeld \/ result'[p].success)
    /\ seqLog' = LogReturn(log, result'[p], TRUE)
    /\ UNCHANGED <<storeVars, now, lockTimestamp, writerVars, guardVars, statusVars, alertVars, reconVars, checkVars, orgVars, socketVars>>

\* unlockBillingCycle is called.
UnlockStart(p, log) ==
    /\ pc[p] \in {"idle", "done"}
    /\ log => Len(seqLog) < MaxSeqCalls
    /\ pc' = [pc EXCEPT ![p] = "unlock_write"]
    /\ result' = [result EXCEPT ![p] = NoResult]
    /\ lockHeld' = FALSE
    /\ raceOn' = FALSE
    /\ seqLog' = LogStart(log, "unlock")
    /\ UNCHANGED <<storeVars, now, lockTimestamp, writerVars, guardVars, statusVars, alertVars, reconVars, checkVars, orgVars, socketVars>>

\* A write that clears the flag and keeps the lock time.
UnlockWriteFlagOnly ==
    UpdateLockFields(accounts, BillingAccountId, FALSE,
                     GetDocument(accounts, BillingAccountId).billingCycleLockedAt)

\* Its one write clears both fields.
UnlockWriteFields == UpdateLockFields(accounts, BillingAccountId, FALSE, null)

UnlockWrite(p, log) ==
    /\ pc[p] = "unlock_write"
    /\ pc' = [pc EXCEPT ![p] = "done"]
    /\ \E fails \in BOOLEAN :
        IF fails
            THEN /\ result' = [result EXCEPT ![p] = UnlockResult(FALSE)]
                 /\ seqLog' = LogReturn(log, result'[p], FALSE)
                 /\ UNCHANGED accounts
            ELSE /\ accounts' = UnlockWriteFields
                 /\ result' = [result EXCEPT ![p] = UnlockResult(TRUE)]
                 /\ seqLog' = LogReturn(log, result'[p], TRUE)
    /\ raceOn' = FALSE
    /\ UNCHANGED <<workspaces, now, lockTimestamp, lockHeld, writerVars, guardVars, statusVars, alertVars, reconVars, checkVars, orgVars, socketVars>>

\* Time passes.
Tick ==
    /\ now < MaxClock
    /\ now' = now + 1
    /\ UNCHANGED <<storeVars, pc, lockTimestamp, result, raceOn, lockHeld, writerVars, seqLog, guardVars, statusVars, alertVars, reconVars, checkVars, orgVars, socketVars>>

(***************************************************************************)
(* getBillingAccount.  failAt numbers the store call that throws (0: none); *)
(* n counts the store calls made so far.  The lookups are the body of the   *)
(* try block: they yield StoreError when a store call throws, and           *)
(* GetBillingAccount is that body under its catch.                          *)
(***************************************************************************)
\* "No account": the null getBillingAccount returns.
NoAccount == [id |-> none]
\* The exception a failing store call throws.
StoreError == [thrown |-> "store"]

Lookup(organizationId, workspaceId, userId) ==
    [organizationId |-> organizationId, workspaceId |-> workspaceId, userId |-> userId]

\* A workspace document.
Workspace(id, organizationId, userId) ==
    [id |-> id, organizationId |-> organizationId, userId |-> userId]

\* listDocuments with the two Query.equal filters; documents[0] of a non-empty list.
OrgAccounts(accts, organizationId) ==
    {a \in accts : a.organizationId = organizationId /\ a.type = ORG}
PersonalAccounts(accts, userId) ==
    {a \in accts : a.userId = userId /\ a.type = PERSONAL}
FirstDocument(docs) == CHOOSE d \in docs : TRUE

\* Priority 3: direct user lookup.
DirectUserLookup(accts, options, failAt, n) ==
    IF options.userId = none THEN NoAccount
    ELSE IF failAt = n + 1 THEN StoreError
    ELSE IF PersonalAccounts(accts, options.userId) # {}
        THEN FirstDocument(PersonalAccounts(accts, options.userId))
    ELSE NoAccount

\* Priority 2: derive from the workspace.  getDocument throws for a missing
\* workspace as it does for a failing store.
WorkspaceLookup(accts, wss, options, failAt, n) ==
    IF options.workspaceId = none THEN DirectUserLookup(accts, options, failAt, n)
    ELSE IF failAt = n + 1 \/ ~HasDocument(wss, options.workspaceId) THEN StoreError
    ELSE LET workspace == GetDocument(wss, options.workspaceId) IN
         IF workspace.organizationId # none
             THEN IF failAt = n + 2 THEN StoreError
                  ELSE IF OrgAccounts(accts, workspace.organizationId) # {}
                      THEN FirstDocument(OrgAccounts(accts, workspace.organizationId))
                  ELSE DirectUserLookup(accts, options, failAt, n + 2)
         ELSE IF workspace.userId # none
             THEN IF failAt = n + 2 THEN StoreError
                  ELSE IF PersonalAccounts(accts, workspace.userId) # {}
                      THEN FirstDocument(PersonalAccounts(accts, workspace.userId))
                  ELSE DirectUserLookup(accts, options, failAt, n + 2)
         ELSE DirectUserLookup(accts, options, failAt, n + 1)

\* A lookup that tries options.userId before the workspace.
OrganizationLookupUserFirst(accts, wss, options, failAt) ==
    IF options.organizationId # none /\ failAt = 1 THEN StoreError
    ELSE IF options.organizationId # none /\ OrgAccounts(accts, options.organizationId) # {}
        THEN FirstDocument(OrgAccounts(accts, options.organizationId))
    ELSE IF DirectUserLookup(accts, options, failAt, 1) # NoAccount
        THEN DirectUserLookup(accts, options, failAt, 1)
    ELSE WorkspaceLookup(accts, wss, [options EXCEPT !.userId = none], failAt, 2)

\* Priority 1: direct organization lookup.
OrganizationLookup(accts, wss, options, failAt) ==
    IF options.organizationId # none
        THEN IF failAt = 1 THEN StoreError
             ELSE IF OrgAccounts(accts, options.organizationId) # {}
                 THEN FirstDocument(OrgAccounts(accts, options.organizationId))
             ELSE WorkspaceLookup(accts, wss, options, failAt, 1)
        ELSE WorkspaceLookup(accts, wss, options, failAt, 0)

\* A lookup whose catch block throws the error on.
GetBillingAccountRethrowing(accts, wss, options, failAt) ==
    OrganizationLookup(accts, wss, options, failAt)

\* try { ... } catch { return null }
GetBillingAccount(accts, wss, options, failAt) ==
    LET found == OrganizationLookup(accts, wss, options, failAt) IN
    IF found = StoreError THEN NoAccount ELSE found

(***************************************************************************)
(* The status assertions and the usage write guard.  An outcome is either   *)
(* the value returned or the BillingError thrown.                           *)
(***************************************************************************)
Returned(value) == [kind |-> "returned", value |-> value]
Threw(code, billingAccountId, billingStatus) ==
    [kind |-> "threw", code |-> code, billingAccountId |-> billingAccountId,
     billingStatus |-> billingStatus]
\* An exception of the store that no catch block stopped: the assertions
\* have no try block of their own, so it reaches their caller.
Uncaught == Threw("STORE_ERROR", none, none)
\* What the caller of a lookup sees.
Outcome(found) == IF found = StoreError THEN Uncaught ELSE Returned(found)

\* An assertion that lets a DUE account through.
AssertBillingActiveAllowingDue(accts, wss, options, failAt) ==
    LET account == GetBillingAccount(accts, wss, options, failAt) IN
    IF account = StoreError THEN Uncaught
    ELSE IF account = NoAccount THEN Returned(NoAccount)
    ELSE IF account.billingStatus = SUSPENDED
        THEN Threw("BILLING_SUSPENDED", account.id, account.billingStatus)
    ELSE Returned(account)

AssertBillingActive(accts, wss, options, failAt) ==
    LET account == GetBillingAccount(accts, wss, options, failAt) IN
    IF account = StoreError THEN Uncaught
    ELSE IF account = NoAccount THEN Returned(NoAccount)
    ELSE IF account.billingStatus = SUSPENDED
        THEN Threw("BILLING_SUSPENDED", account.id, account.billingStatus)
    ELSE IF account.billingStatus = DUE
        THEN Threw("BILLING_DUE", account.id, account.billingStatus)
    ELSE Returned(account)

\* An assertion that throws for every account that is not ACTIVE.
AssertBillingNotSuspendedStrict(accts, wss, options, failAt) ==
    LET account == GetBillingAccount(accts, wss, options, failAt) IN
    IF account = StoreError THEN Uncaught
    ELSE IF account = NoAccount THEN Returned(NoAccount)
    ELSE IF account.billingStatus # ACTIVE
        THEN Threw("BILLING_SUSPENDED", account.id, account.billingStatus)
    ELSE Returned(account)

AssertBillingNotSuspended(accts, wss, options, failAt) ==
    LET account == GetBillingAccount(accts, wss, options, failAt) IN
    IF account = StoreError THEN Uncaught
    ELSE IF account = NoAccount THEN Returned(NoAccount)
    ELSE IF account.billingStatus = SUSPENDED
        THEN Threw("BILLING_SUSPENDED", account.id, account.billingStatus)
    ELSE Returned(account)

\* A guard that checks the cycle lock before the suspension.
AssertCanWriteUsageLockFirst(accts, wss, options, failAt) ==
    LET account == GetBillingAccount(accts, wss, options, failAt) IN
    IF account = StoreError THEN Uncaught
    ELSE IF account = NoAccount THEN Returned([account |-> NoAccount, allowed |-> TRUE])
    ELSE IF account.isBillingCycleLocked
        THEN Threw("BILLING_CYCLE_LOCKED", account.id, none)
    ELSE IF account.billingStatus = SUSPENDED
        THEN Threw("BILLING_SUSPENDED", account.id, account.billingStatus)
    ELSE Returned([account |-> account, allowed |-> TRUE])

AssertCanWriteUsage(accts, wss, options, failAt) ==
    LET checked == AssertBillingNotSuspended(accts, wss, options, failAt) IN
    IF checked.kind = "threw" THEN checked
    ELSE IF checked.value = NoAccount
        THEN Returned([account |-> NoAccount, allowed |-> TRUE])
    ELSE IF checked.value.isBillingCycleLocked
        THEN Threw("BILLING_CYCLE_LOCKED", checked.value.id, none)
    ELSE Returned([account |-> checked.value, allowed |-> TRUE])

(***************************************************************************)
(* The usage writer (metering code): it asks assertCanWriteUsage and        *)
(* records a usage event only when that returns allowed.                    *)
(***************************************************************************)
WriterLookup == Lookup("o1", none, none)

WriterCheck ==
    /\ wpc \in {"idle", "blocked"}
    /\ usageEvents < MaxEvents
    /\ LET outcome == AssertCanWriteUsage(accounts, workspaces, WriterLookup, 0) IN
       wpc' = IF outcome.kind = "returned" /\ outcome.value.allowed
                  THEN "allowed" ELSE "blocked"
    /\ UNCHANGED <<storeVars, lockVars, usageEvents, seqLog, guardVars, statusVars, alertVars, reconVars, checkVars, orgVars, socketVars>>

WriterRecord ==
    /\ wpc = "allowed"
    /\ usageEvents' = usageEvents + 1
    /\ wpc' = "idle"
    /\ UNCHANGED <<storeVars, lockVars, seqLog, guardVars, statusVars, alertVars, reconVars, checkVars, orgVars, socketVars>>

(***************************************************************************)
(* The billing status state machine.                                        *)
(***************************************************************************)
NoTransition == [from |-> none]

\* A table that lets a suspended account go back to DUE.
TransitionsWithRegression(from) ==
    CASE from = ACTIVE -> {DUE}
      [] from = DUE -> {ACTIVE, SUSPENDED}
      [] from = SUSPENDED -> {ACTIVE, DUE}
      [] OTHER -> {}

\* A table that lets an active account be suspended at once.
TransitionsSkippingGrace(from) ==
    CASE from = ACTIVE -> {DUE, SUSPENDED}
      [] from = DUE -> {ACTIVE, SUSPENDED}
      [] from = SUSPENDED -> {ACTIVE}
      [] OTHER -> {}

VALID_STATUS_TRANSITIONS(from) ==
    CASE from = ACTIVE -> {DUE}
      [] from = DUE -> {ACTIVE, SUSPENDED}
      [] from = SUSPENDED -> {ACTIVE}
      [] OTHER -> {}

\* TRUE when assertValidStatusTransition returns, FALSE when it throws.
AssertValidStatusTransition(from, to) ==
    IF from = to THEN TRUE
    ELSE to \in VALID_STATUS_TRANSITIONS(from)

\* The wrapper: the InvariantViolationError it throws, or no error.
NoError == [invariant |-> none]
AssertStatusTransition(billingAccountId, from, to) ==
    IF AssertValidStatusTransition(from, to) THEN NoError
    ELSE [invariant |-> "STATUS_TRANSITION",
          context |-> [billingAccountId |-> billingAccountId, from |-> from, to |-> to]]

UpdateStatus(coll, id, status) ==
    {IF d.id = id THEN [d EXCEPT !.billingStatus = status] ELSE d : d \in coll}

\* A status change of the account, made only when the assertion accepts it.
ChangeStatus(to) ==
    /\ Len(statusLog) <= MaxChanges
    /\ LET from == GetDocument(accounts, BillingAccountId).billingStatus
           accepted == AssertValidStatusTransition(from, to)
       IN /\ transition' = [from |-> from, to |-> to, accepted |-> accepted,
                            error |-> AssertStatusTransition(BillingAccountId, from, to)]
          /\ IF accepted
                 THEN /\ accounts' = UpdateStatus(accounts, BillingAccountId, to)
                      /\ statusLog' = Append(statusLog, to)
                 ELSE UNCHANGED <<accounts, statusLog>>
    /\ UNCHANGED <<workspaces, lockVars, writerVars, seqLog, guardVars, alertVars, reconVars, checkVars, orgVars, socketVars>>

(***************************************************************************)
(* Calls of the lookup and of the guards on a store that does not change.   *)
(***************************************************************************)
NoCall == [fn |-> "none"]

Orgs == {"o1", "o2"}
Users == {"u1", "u2"}
WorkspaceId == "w1"
\* The store call of one getBillingAccount run that throws (0: none does).
FailPoints == 0..4

\* The id of the one billing account an owner has.
AccountIdOf(owner) ==
    CASE owner = "o1" -> "acc_o1"
      [] owner = "o2" -> "acc_o2"
      [] owner = "u1" -> "acc_u1"
      [] owner = "u2" -> "acc_u2"

AccountOfOwner(owner, status, locked) ==
    IF owner \in Orgs
        THEN Account(AccountIdOf(owner), ORG, owner, none, status, locked,
                     IF locked THEN 1 ELSE null)
        ELSE Account(AccountIdOf(owner), PERSONAL, none, owner, status, locked,
                     IF locked THEN 1 ELSE null)

\* The lookups a caller passes.  The store is the same under a renaming of
\* the organizations or of the users, so an id the caller names is "o1" or "u1".
Lookups ==
    {Lookup(o, w, u) : o \in {none, "o1"}, w \in {none, WorkspaceId}, u \in {none, "u1"}}

Called(fn, options, failAt, outcome) ==
    [fn |-> fn, options |-> options, failAt |-> failAt, outcome |-> outcome]

CallGetBillingAccount ==
    /\ call = NoCall
    /\ \E options \in Lookups, failAt \in FailPoints :
        call' = Called("getBillingAccount", options, failAt,
                       Outcome(GetBillingAccount(accounts, workspaces, options, failAt)))
    /\ UNCHANGED <<storeVars, lockVars, writerVars, seqLog, statusVars, alertVars, reconVars, checkVars, orgVars, socketVars>>

CallAssertBillingActive ==
    /\ call = NoCall
    /\ \E options \in Lookups, failAt \in FailPoints :
        call' = Called("assertBillingActive", options, failAt,
                       AssertBillingActive(accounts, workspaces, options, failAt))
    /\ UNCHANGED <<storeVars, lockVars, writerVars, seqLog, statusVars, alertVars, reconVars, checkVars, orgVars, socketVars>>

CallAssertBillingNotSuspended ==
    /\ call = NoCall
    /\ \E options \in Lookups, failAt \in FailPoints :
        call' = Called("assertBillingNotSuspended", options, failAt,
                       AssertBillingNotSuspended(accounts, workspaces, options, failAt))
    /\ UNCHANGED <<storeVars, lockVars, writerVars, seqLog, statusVars, alertVars, reconVars, checkVars, orgVars, socketVars>>

CallAssertCanWriteUsage ==
    /\ call = NoCall
    /\ \E options \in Lookups, failAt \in FailPoints :
        call' = Called("assertCanWriteUsage", options, failAt,
                       AssertCanWriteUsage(accounts, workspaces, options, failAt))
    /\ UNCHANGED <<storeVars, lockVars, writerVars, seqLog, statusVars, alertVars, reconVars, checkVars, orgVars, socketVars>>

(***************************************************************************)
(* Timestamps.  A timestamp string names an instant in the canonical form   *)
(* toISOString writes ("iso"), names it in another form ("date"), or names  *)
(* no instant at all ("garbage").  A Date is an instant or the Invalid Date.*)
(***************************************************************************)
Timestamp(instant, form) == [instant |-> instant, form |-> form]
Garbage == [instant |-> null, form |-> "garbage"]
DateOf(time) == [valid |-> TRUE, time |-> time]
InvalidDate == [valid |-> FALSE, time |-> null]
RangeError == [thrown |-> "RangeError"]

\* new Date(string)
NewDate(string) ==
    IF string.form = "garbage" THEN InvalidDate ELSE DateOf(string.instant)
\* date.toISOString(): throws on the Invalid Date.
ToISOString(date) ==
    IF date.valid THEN Timestamp(date.time, "iso") ELSE RangeError
\* a < b on Dates: false when either is the Invalid Date.
Before(a, b) == a.valid /\ b.valid /\ a.time < b.time

(***************************************************************************)
(* adjustEventForLockedCycle.                                               *)
(***************************************************************************)
Adjustment(timestamp, wasAdjusted, adjustReason) ==
    [timestamp |-> timestamp, wasAdjusted |-> wasAdjusted, adjustReason |-> adjustReason]
\* The value returned, or the exception of a toISOString that threw.
AdjustOutcome(timestamp, wasAdjusted, adjustReason) ==
    IF timestamp = RangeError THEN Threw("RangeError", none, none)
    ELSE Returned(Adjustment(timestamp, wasAdjusted, adjustReason))

\* An adjustment that moves a late event on an unlocked account as well.
AdjustEventUnlockedToo(eventTimestamp, account, clock) ==
    IF account = NoAccount THEN AdjustOutcome(eventTimestamp, FALSE, none)
    ELSE LET eventDate == NewDate(eventTimestamp)
             cycleEnd == NewDate(account.billingCycleEnd)
             cycleStart == NewDate(account.billingCycleStart)
         IN IF Before(eventDate, cycleStart)
                THEN AdjustOutcome(ToISOString(cycleStart), TRUE, "late")
            ELSE IF Before(cycleEnd, eventDate)
                THEN AdjustOutcome(ToISOString(DateOf(clock)), TRUE, "future")
            ELSE AdjustOutcome(eventTimestamp, FALSE, none)

\* clock is the instant new Date() reads.
AdjustEventForLockedCycle(eventTimestamp, account, clock) ==
    IF account = NoAccount THEN AdjustOutcome(eventTimestamp, FALSE, none)
    ELSE LET eventDate == NewDate(eventTimestamp)
             cycleEnd == NewDate(account.billingCycleEnd)
             cycleStart == NewDate(account.billingCycleStart)
         IN IF account.isBillingCycleLocked /\ Before(eventDate, cycleStart)
                THEN AdjustOutcome(ToISOString(cycleStart), TRUE, "late")
            ELSE IF Before(cycleEnd, eventDate)
                THEN AdjustOutcome(ToISOString(DateOf(clock)), TRUE, "future")
            ELSE AdjustOutcome(eventTimestamp, FALSE, none)

\* Instants of events and of the clock; a cycle lies inside 1..MaxInstant.
Instants == 0..(MaxInstant + 1)
EventTimestamps ==
    {Timestamp(t, form) : t \in Instants, form \in {"iso", "date"}} \cup {Garbage}

\* The account passed to a function of one account: the stored one, or null.
TheAccount == IF accounts = {} THEN NoAccount ELSE FirstDocument(accounts)

CallAdjustEvent ==
    /\ call = NoCall
    /\ \E eventTimestamp \in EventTimestamps :
        call' = Called("adjustEventForLockedCycle", eventTimestamp, 0,
                       AdjustEventForLockedCycle(eventTimestamp, TheAccount, now))
    /\ UNCHANGED <<storeVars, lockVars, writerVars, seqLog, statusVars, alertVars, reconVars, checkVars, orgVars, socketVars>>

(***************************************************************************)
(* getAccountWarningState and shouldShowGlobalWarning.  Instants are in     *)
(* milliseconds, as getTime() returns them.                                 *)
(***************************************************************************)
NEAR_SUSPENSION_THRESHOLD_HOURS == 48
\* The literal 12 of the CRITICAL test.
CRITICAL_THRESHOLD_HOURS == 12
MsPerHour == 1000 * 60 * 60

\* An account field that is not set (undefined, null or ""): falsy.
NoTimestamp == [instant |-> null, form |-> "absent"]

Max(a, b) == IF a >= b THEN a ELSE b
\* Math.ceil(ms / MsPerHour) for ms >= 0.
CeilHours(ms) == (ms + MsPerHour - 1) \div MsPerHour

WarningState(state, message) == [state |-> state, message |-> message]
GraceWarningState(state, hoursRemaining, gracePeriodEnd, message) ==
    [state |-> state, hoursRemaining |-> hoursRemaining,
     gracePeriodEnd |-> gracePeriodEnd, message |-> message]

\* A derivation that is CRITICAL only below 12 hours.
GetAccountWarningStateBelow12(account, clock) ==
    IF account = NoAccount THEN WarningState("NORMAL", none)
    ELSE IF account.billingStatus = SUSPENDED THEN WarningState("SUSPENDED", "suspended")
    ELSE IF account.billingStatus = DUE /\ account.gracePeriodEnd # NoTimestamp
        THEN LET gracePeriodEnd == NewDate(account.gracePeriodEnd)
                 \* hoursRemaining * MsPerHour
                 msRemaining == Max(0, gracePeriodEnd.time - clock)
             IN IF msRemaining <= 0
                    THEN GraceWarningState("CRITICAL", 0, account.gracePeriodEnd, "expired")
                ELSE IF msRemaining < CRITICAL_THRESHOLD_HOURS * MsPerHour
                    THEN GraceWarningState("CRITICAL", CeilHours(msRemaining),
                                           account.gracePeriodEnd, "urgent")
                ELSE IF msRemaining <= NEAR_SUSPENSION_THRESHOLD_HOURS * MsPerHour
                    THEN GraceWarningState("WARNING", CeilHours(msRemaining),
                                           account.gracePeriodEnd, "hours before suspension")
                ELSE GraceWarningState("WARNING", CeilHours(msRemaining),
                                       account.gracePeriodEnd, "unpaid invoice")
    ELSE WarningState("NORMAL", none)

\* clock is the instant new Date() reads.
GetAccountWarningState(account, clock) ==
    IF account = NoAccount THEN WarningState("NORMAL", none)
    ELSE IF account.billingStatus = SUSPENDED THEN WarningState("SUSPENDED", "suspended")
    ELSE IF account.billingStatus = DUE /\ account.gracePeriodEnd # NoTimestamp
        THEN LET gracePeriodEnd == NewDate(account.gracePeriodEnd)
                 \* hoursRemaining * MsPerHour
                 msRemaining == Max(0, gracePeriodEnd.time - clock)
             IN IF msRemaining <= 0
                    THEN GraceWarningState("CRITICAL", 0, account.gracePeriodEnd, "expired")
                ELSE IF msRemaining <= CRITICAL_THRESHOLD_HOURS * MsPerHour
                    THEN GraceWarningState("CRITICAL", CeilHours(msRemaining),
                                           account.gracePeriodEnd, "urgent")
                ELSE IF msRemaining <= NEAR_SUSPENSION_THRESHOLD_HOURS * MsPerHour
                    THEN GraceWarningState("WARNING", CeilHours(msRemaining),
                                           account.gracePeriodEnd, "hours before suspension")
                ELSE GraceWarningState("WARNING", CeilHours(msRemaining),
                                       account.gracePeriodEnd, "unpaid invoice")
    ELSE WarningState("NORMAL", none)

ShouldShowGlobalWarning(state) ==
    state.state = "WARNING" \/ state.state = "CRITICAL" \/ state.state = "SUSPENDED"

\* The banner: the state derived and whether it is shown.
CallGetAccountWarningState ==
    /\ call = NoCall
    /\ call' = Called("getAccountWarningState", TheAccount, 0,
                      LET state == GetAccountWarningState(TheAccount, now)
                      IN Returned([warning |-> state,
                                   shown |-> ShouldShowGlobalWarning(state)]))
    /\ UNCHANGED <<storeVars, lockVars, writerVars, seqLog, statusVars, alertVars, reconVars, checkVars, orgVars, socketVars>>

(***************************************************************************)
(* The alert evaluation job.  The clock is in hours.                        *)
(***************************************************************************)
COOLDOWN_HOURS == 24
\* Query.limit of the list of enabled alerts.
ALERTS_LIMIT == 1000

\* The alerts, in the order listDocuments returns them.
AlertIds == <<"al1", "al2">>

UsageAlert(id, isEnabled, alertType, webhookUrl, threshold, lastTriggeredAt) ==
    [id |-> id, workspaceId |-> WorkspaceId, isEnabled |-> isEnabled,
     alertType |-> alertType, webhookUrl |-> webhookUrl, threshold |-> threshold,
     lastTriggeredAt |-> lastTriggeredAt]

\* The result evaluateAlert starts from.
AlertEvaluationResult(alert) ==
    [alertId |-> alert.id, workspaceId |-> alert.workspaceId,
     threshold |-> alert.threshold, currentUsage |-> 0,
     triggered |-> FALSE, notificationSent |-> FALSE, error |-> none]

\* What the store and the network do to one evaluation: the store call of
\* getBillingAccount that throws, whether the usage query throws, what the
\* create or the POST of the dispatch does, whether the update throws.
Faults ==
    [failAt : 0..2, usageFails : BOOLEAN, net : {"ok", "rejected", "throws"},
     updateFails : BOOLEAN]

\* getCurrentMonthUsage: the sum of the month's events, or the exception of
\* the list call.
GetCurrentMonthUsage(usage, fails) == IF fails THEN Uncaught ELSE Returned(usage)

\* createDocument in a try block: true, or false from the catch.
SendInAppNotification(net) == net = "ok"
\* false without a webhookUrl; else response.ok, or false from the catch.
SendWebhookNotification(alert, net) ==
    IF alert.webhookUrl = none THEN FALSE ELSE net = "ok"

\* switch (alert.alertType)
Dispatch(alert, net) ==
    CASE alert.alertType = "in_app" -> SendInAppNotification(net)
      [] alert.alertType = "webhook" -> SendWebhookNotification(alert, net)
      [] alert.alertType = "email" -> SendInAppNotification(net)

\* A job that evaluates alerts of suspended accounts too.
SuspendedNever(account) == FALSE
\* account?.billingStatus === BillingStatus.SUSPENDED
Suspended(account) == account # NoAccount /\ account.billingStatus = SUSPENDED

\* A job that stamps every triggered alert.
StampWhenTriggered(res) == res.triggered
\* if (result.notificationSent): lastTriggeredAt is written.
Stamp(res) == res.notificationSent

\* What one evaluation did: the result so far, the alerts collection after
\* it, the account resolved, what became of the dispatch ("none": there was
\* none), the store call that failed ("none", "usage", "update"), and
\* whether an exception is on its way out.
Evaluation(res, alertDocs, account, dispatch, failure, thrown) ==
    [result |-> res, alerts |-> alertDocs, account |-> account,
     dispatch |-> dispatch, failure |-> failure, thrown |-> thrown]

\* The try block of evaluateAlert.
EvaluateAlertTry(alert, accts, wss, alertDocs, usage, clock, faults) ==
    LET initial == AlertEvaluationResult(alert)
        account == GetBillingAccount(accts, wss, Lookup(none, alert.workspaceId, none),
                                     faults.failAt)
        currentUsage == GetCurrentMonthUsage(usage, faults.usageFails)
    IN IF Suspended(account)
           THEN Evaluation([initial EXCEPT !.error = "Account suspended - skipping alert evaluation"],
                           alertDocs, account, "none", "none", FALSE)
       ELSE IF currentUsage.kind = "threw"
           THEN Evaluation(initial, alertDocs, account, "none", "usage", TRUE)
       ELSE IF currentUsage.value >= alert.threshold
           THEN LET sent == Dispatch(alert, faults.net)
                    triggered == [initial EXCEPT !.currentUsage = currentUsage.value,
                                                !.triggered = TRUE,
                                                !.notificationSent = sent]
                    dispatch == IF sent THEN "sent" ELSE "failed"
                IN IF ~Stamp(triggered)
                       THEN Evaluation(triggered, alertDocs, account, dispatch, "none", FALSE)
                   ELSE IF faults.updateFails
                       THEN Evaluation(triggered, alertDocs, account, dispatch, "update", TRUE)
                   ELSE Evaluation(triggered,
                                   [alertDocs EXCEPT ![alert.id].lastTriggeredAt = clock],
                                   account, dispatch, "none", FALSE)
       ELSE Evaluation([initial EXCEPT !.currentUsage = currentUsage.value],
                       alertDocs, account, "none", "none", FALSE)

\* An evaluation without its catch block.
EvaluateAlertUncaught(alert, accts, wss, alertDocs, usage, clock, faults) ==
    EvaluateAlertTry(alert, accts, wss, alertDocs, usage, clock, faults)

\* evaluateAlert: the catch block writes the exception into result.error.
EvaluateAlert(alert, accts, wss, alertDocs, usage, clock, faults) ==
    LET tried == EvaluateAlertTry(alert, accts, wss, alertDocs, usage, clock, faults)
    IN IF tried.thrown
           THEN [tried EXCEPT !.result.error = "store error", !.thrown = FALSE]
           ELSE tried

\* A cooldown that still holds at exactly 24 hours.
RecentlyTriggeredInclusive(alert, clock) ==
    /\ alert.lastTriggeredAt # null
    /\ clock - alert.lastTriggeredAt <= COOLDOWN_HOURS
\* if (alert.lastTriggeredAt) { ... if (hoursSince < 24) continue }
RecentlyTriggered(alert, clock) ==
    /\ alert.lastTriggeredAt # null
    /\ clock - alert.lastTriggeredAt < COOLDOWN_HOURS

\* listDocuments with Query.equal("isEnabled", true) and Query.limit.
RECURSIVE EnabledFrom(_, _)
EnabledFrom(alertDocs, i) ==
    IF i > Len(AlertIds) THEN <<>>
    ELSE IF alertDocs[AlertIds[i]].isEnabled
        THEN <<alertDocs[AlertIds[i]]>> \o EnabledFrom(alertDocs, i + 1)
    ELSE EnabledFrom(alertDocs, i + 1)
ListEnabledAlerts(alertDocs) ==
    LET enabled == EnabledFrom(alertDocs, 1)
    IN IF Len(enabled) <= ALERTS_LIMIT THEN enabled ELSE SubSeq(enabled, 1, ALERTS_LIMIT)

Job(state, batch, index, results, runs, threw) ==
    [pc |-> state, batch |-> batch, index |-> index, results |-> results,
     runs |-> runs, threw |-> threw]
Visit(alert, at, evaluated, evaluation) ==
    [alertId |-> alert.id, at |-> at, evaluated |-> evaluated,
     account |-> evaluation.account, dispatch |-> evaluation.dispatch,
     failure |-> evaluation.failure]
\* An alert the loop passes over evaluates nothing.
NoEvaluation(alertDocs) == Evaluation(NoResult, alertDocs, NoAccount, "none", "none", FALSE)

\* evaluateAllAlerts is called, on its schedule (at most once in a tick of
\* the clock): the list of enabled alerts is read.
RunStart ==
    /\ job.pc = "idle"
    /\ job.runs <= (now - 2 * COOLDOWN_HOURS) \div TickHours
    /\ \E fails \in BOOLEAN :
        job' = IF fails
                   THEN Job("idle", <<>>, 1, <<>>, job.runs + 1, "listDocuments")
                   ELSE Job("running", ListEnabledAlerts(alerts), 1, <<>>, job.runs + 1, none)
    /\ visits' = <<>>
    /\ UNCHANGED <<storeVars, lockVars, writerVars, seqLog, guardVars, statusVars>>
    /\ UNCHANGED <<alerts, monthUsage, dispatched, reconVars, checkVars, orgVars, socketVars>>

\* The loop comes to an alert in its cooldown: continue.
SkipAlert ==
    /\ job.pc = "running"
    /\ job.index <= Len(job.batch)
    /\ RecentlyTriggered(job.batch[job.index], now)
    /\ job' = [job EXCEPT !.index = job.index + 1]
    /\ visits' = Append(visits, Visit(job.batch[job.index], now, FALSE, NoEvaluation(alerts)))
    /\ UNCHANGED <<storeVars, lockVars, writerVars, seqLog, guardVars, statusVars>>
    /\ UNCHANGED <<alerts, monthUsage, dispatched, reconVars, checkVars, orgVars, socketVars>>

\* The loop comes to any other alert: results.push(await evaluateAlert(...)).
\* An exception of evaluateAlert would leave evaluateAllAlerts.
EvaluateNext ==
    /\ job.pc = "running"
    /\ job.index <= Len(job.batch)
    /\ ~RecentlyTriggered(job.batch[job.index], now)
    /\ \E faults \in Faults :
        LET alert == job.batch[job.index]
            evaluation == EvaluateAlert(alert, accounts, workspaces, alerts,
                                        monthUsage, now, faults)
        IN /\ visits' = Append(visits, Visit(alert, now, TRUE, evaluation))
           /\ dispatched' = IF evaluation.dispatch = "sent"
                                THEN dispatched \cup {[alertId |-> alert.id, at |-> now]}
                                ELSE dispatched
           /\ alerts' = evaluation.alerts
           /\ job' = IF evaluation.thrown
                         THEN [job EXCEPT !.pc = "idle", !.results = <<>>,
                                          !.threw = "evaluateAlert"]
                         ELSE [job EXCEPT !.index = job.index + 1,
                                          !.results = Append(job.results, evaluation.result)]
    /\ UNCHANGED <<storeVars, lockVars, writerVars, seqLog, guardVars, statusVars>>
    /\ UNCHANGED <<monthUsage, reconVars, checkVars, orgVars, socketVars>>

\* The loop is over: return results.
RunReturn ==
    /\ job.pc = "running"
    /\ job.index > Len(job.batch)
    /\ job' = [job EXCEPT !.pc = "idle"]
    /\ UNCHANGED <<storeVars, lockVars, writerVars, seqLog, guardVars, statusVars>>
    /\ UNCHANGED <<alerts, monthUsage, visits, dispatched, reconVars, checkVars, orgVars, socketVars>>

\* Time passes between two runs of the job (a run is short against a tick).
Advance ==
    /\ job.pc = "idle"
    /\ now < 2 * COOLDOWN_HOURS + MaxTicks * TickHours
    /\ now' = now + TickHours
    /\ UNCHANGED <<storeVars, pc, lockTimestamp, result, raceOn, lockHeld>>
    /\ UNCHANGED <<writerVars, seqLog, guardVars, statusVars, alertVars, reconVars, checkVars, orgVars, socketVars>>

NoAlertJob ==
    /\ alerts = <<>>
    /\ monthUsage = 0
    /\ job = Job("idle", <<>>, 1, <<>>, 0, none)
    /\ visits = <<>>
    /\ dispatched = {}

NoReconciliation ==
    /\ aggregations = {}
    /\ usageEventDocs = <<>>

NoChecks ==
    /\ invoices = {}
    /\ mode = "production"

NoOrganization ==
    /\ members = {}
    /\ removals = <<>>

NoSockets ==
    /\ connectedUsers = <<>>
    /\ sockets = <<>>

(***************************************************************************)
(* assertAggregationMatchesEvents.  Quantities in GB are held as whole      *)
(* numbers of 1/1024 GB (event sizes are whole MiB), a tolerance as a       *)
(* number of hundredths: the comparisons are those of the exact values.     *)
(***************************************************************************)
MiB == 1024 * 1024
GiB == 1024 * 1024 * 1024
\* 1 GB, and 1 compute unit, as they are held.
OneGB == GiB \div MiB
OneUnit == 1
\* tolerancePercent = 0.01, in hundredths.
DefaultTolerance == 1
\* Query.limit of the list of events.
EVENTS_LIMIT == 10000

UsageAggregation(id, workspaceId, period, trafficTotalGB, storageAvgGB, computeTotalUnits) ==
    [id |-> id, workspaceId |-> workspaceId, period |-> period,
     trafficTotalGB |-> trafficTotalGB, storageAvgGB |-> storageAvgGB,
     computeTotalUnits |-> computeTotalUnits]
\* period is the month of the event's timestamp; weightedUnits 0: not set.
UsageEvent(workspaceId, period, resourceType, units, weightedUnits) ==
    [workspaceId |-> workspaceId, period |-> period, resourceType |-> resourceType,
     units |-> units, weightedUnits |-> weightedUnits]

\* listDocuments: the events of the workspace with startOfMonth <= timestamp
\* < endOfMonth, up to the limit.
ListEvents(events, workspaceId, period) ==
    LET listed == SelectSeq(events, LAMBDA e : e.workspaceId = workspaceId /\ e.period = period)
    IN IF Len(listed) <= EVENTS_LIMIT THEN listed ELSE SubSeq(listed, 1, EVENTS_LIMIT)

\* The switch in the loop: what an event adds to the sum of a resource type.
Adds(event, resourceType) ==
    IF event.resourceType # resourceType THEN 0
    ELSE IF resourceType = "compute" /\ event.weightedUnits # 0 THEN event.weightedUnits
    ELSE event.units

RECURSIVE SumUnits(_, _)
SumUnits(events, resourceType) ==
    IF events = <<>> THEN 0
    ELSE Adds(Head(events), resourceType) + SumUnits(Tail(events), resourceType)

\* bytes / (1024 * 1024 * 1024), in 1/1024 GB.
BytesToGB(bytes) == bytes \div MiB

Abs(x) == IF x >= 0 THEN x ELSE 0 - x

\* A bound without the fallback for a stored 0.
MaxDiffOfStoredOnly(stored, one, tolerance) == stored * tolerance
\* (stored || 1) * tolerancePercent, times 100.
MaxDiff(stored, one, tolerance) == (IF stored # 0 THEN stored ELSE one) * tolerance

\* fails: the store call that throws ("none", "getDocument", "listDocuments").
AssertAggregationMatchesEvents(aggs, events, aggregationId, tolerance, fails) ==
    IF fails = "getDocument" \/ ~HasDocument(aggs, aggregationId) THEN [matches |-> FALSE]
    ELSE IF fails = "listDocuments" THEN [matches |-> FALSE]
    ELSE LET aggregation == GetDocument(aggs, aggregationId)
             listed == ListEvents(events, aggregation.workspaceId, aggregation.period)
             expectedTrafficGB == BytesToGB(SumUnits(listed, "traffic"))
             expectedStorageGB == BytesToGB(SumUnits(listed, "storage"))
             computeUnits == SumUnits(listed, "compute")
             diff == [trafficGB |-> Abs(aggregation.trafficTotalGB - expectedTrafficGB),
                      storageGB |-> Abs(aggregation.storageAvgGB - expectedStorageGB),
                      computeUnits |-> Abs(aggregation.computeTotalUnits - computeUnits)]
             matches ==
                 /\ diff.trafficGB * 100 <= MaxDiff(aggregation.trafficTotalGB, OneGB, tolerance)
                 /\ diff.storageGB * 100 <= MaxDiff(aggregation.storageAvgGB, OneGB, tolerance)
                 /\ diff.computeUnits * 100
                        <= MaxDiff(aggregation.computeTotalUnits, OneUnit, tolerance)
         IN [matches |-> matches, diff |-> diff]

AggregationId == "agg1"

CallAssertAggregationMatchesEvents ==
    /\ call = NoCall
    /\ \E tolerance \in {DefaultTolerance, 2 * DefaultTolerance},
          fails \in {"none", "getDocument", "listDocuments"} :
        call' = Called("assertAggregationMatchesEvents",
                       [aggregationId |-> AggregationId, tolerance |-> tolerance], fails,
                       Returned(AssertAggregationMatchesEvents(
                                    aggregations, usageEventDocs, AggregationId,
                                    tolerance, fails)))
    /\ UNCHANGED <<storeVars, lockVars, writerVars, seqLog, statusVars, alertVars, reconVars, checkVars, orgVars, socketVars>>

(***************************************************************************)
(* The invoice and aggregation invariants.  An invoice names its snapshot   *)
(* in aggregationSnapshotId (none: not set); an aggregation carries         *)
(* isFinalized.  failAt numbers the store call that throws (0: none).       *)
(***************************************************************************)
Invoice(id, billingAccountId, status, aggregationSnapshotId) ==
    [id |-> id, billingAccountId |-> billingAccountId, status |-> status,
     aggregationSnapshotId |-> aggregationSnapshotId]
Aggregation(id, isFinalized) == [id |-> id, isFinalized |-> isFinalized]

\* throw new InvariantViolationError(invariant, message, context)
InvariantViolationError(invariant, context) ==
    [kind |-> "threw", name |-> "InvariantViolationError",
     invariant |-> invariant, context |-> context]
\* Another exception, as of the store: an Error whose message names no
\* invariant.
StoreFailure == [kind |-> "threw", name |-> "Error", violation |-> none]
ReturnedNormally == [kind |-> "returned"]

\* A check that never looks at isFinalized.
AssertInvoiceUsageImmutableLinkOnly(invs, aggs, invoiceId, failAt) ==
    IF failAt = 1 \/ ~HasDocument(invs, invoiceId)
        THEN InvariantViolationError("INVOICE_USAGE_CHECK_FAILED", invoiceId)
    ELSE IF GetDocument(invs, invoiceId).aggregationSnapshotId = none
        THEN InvariantViolationError("INVOICE_USAGE_LINK", invoiceId)
    ELSE IF failAt = 2 \/ ~HasDocument(aggs, GetDocument(invs, invoiceId).aggregationSnapshotId)
        THEN InvariantViolationError("INVOICE_USAGE_CHECK_FAILED", invoiceId)
    ELSE ReturnedNormally

\* assertInvoiceUsageImmutable: the two reads are store calls 1 and 2; a
\* getDocument of a missing document throws like a failed one, and the
\* catch turns every other exception into INVOICE_USAGE_CHECK_FAILED.  (The
\* branch for a PAID invoice without finalizedAt has an empty body.)
AssertInvoiceUsageImmutable(invs, aggs, invoiceId, failAt) ==
    IF failAt = 1 \/ ~HasDocument(invs, invoiceId)
        THEN InvariantViolationError("INVOICE_USAGE_CHECK_FAILED", invoiceId)
    ELSE LET invoice == GetDocument(invs, invoiceId) IN
         IF invoice.aggregationSnapshotId = none
             THEN InvariantViolationError("INVOICE_USAGE_LINK", invoiceId)
         ELSE IF failAt = 2 \/ ~HasDocument(aggs, invoice.aggregationSnapshotId)
             THEN InvariantViolationError("INVOICE_USAGE_CHECK_FAILED", invoiceId)
         ELSE IF ~GetDocument(aggs, invoice.aggregationSnapshotId).isFinalized
             THEN InvariantViolationError("INVOICE_USAGE_IMMUTABLE", invoiceId)
         ELSE ReturnedNormally

\* Query.limit(n): the documents a listing returns, n at most.
Limit(docs, n) ==
    IF Cardinality(docs) <= n
        THEN docs
        ELSE CHOOSE part \in SUBSET docs : Cardinality(part) = n

INVOICES_LIMIT == 100

\* runBillingInvariantChecks: listFails is a failure of the listing, failAt[id]
\* the failing store call of the check of invoice id.  violations holds the
\* errors pushed (one at most for an invoice).
CheckReport(violations) == [passed |-> violations = {}, violations |-> violations]
RunBillingInvariantChecks(invs, aggs, billingAccountId, listFails, failAt) ==
    IF listFails
        THEN CheckReport({})
        ELSE LET listed == Limit({i \in invs : i.billingAccountId = billingAccountId},
                                 INVOICES_LIMIT)
                 checked == {i \in listed : i.aggregationSnapshotId # none}
             IN CheckReport(
                    {AssertInvoiceUsageImmutable(invs, aggs, i.id, failAt[i.id]) : i \in checked}
                        \ {ReturnedNormally})

\* assertAggregationNotFinalized: a document that is not there ("not found")
\* is fine, and so is, to the catch, every other failure of the read.
AssertAggregationNotFinalized(aggs, aggregationId, fails) ==
    IF fails
        THEN ReturnedNormally
    ELSE IF ~HasDocument(aggs, aggregationId)
        THEN ReturnedNormally
    ELSE IF GetDocument(aggs, aggregationId).isFinalized
        THEN InvariantViolationError("FINALIZED_AGGREGATION_MODIFICATION", aggregationId)
    ELSE ReturnedNormally

(***************************************************************************)
(* runCriticalInvariantChecks.  The clock and the timestamps are whole      *)
(* minutes.  faults says which of its store calls throw: the listing of     *)
(* suspended accounts, the listing of an account's events, the listing of   *)
(* PAID invoices, the read of an aggregation, the listing of locked         *)
(* accounts.                                                                *)
(***************************************************************************)
SUSPENDED_LIMIT == 100
PAID_LIMIT == 50
LOCKED_LIMIT == 50
STALE_THRESHOLD_MINUTES == 30

CriticalCheckResult(check, passed, failed) ==
    [check |-> check, passed |-> passed, error |-> failed]

\* Check 1: no usage event since an account was suspended.
NoUsageDuringSuspension(accts, events, faults) ==
    LET suspendedAccounts == Limit({a \in accts : a.billingStatus = SUSPENDED},
                                   SUSPENDED_LIMIT)
        violating ==
            {a \in suspendedAccounts :
                \E i \in 1..Len(events) :
                    /\ events[i].metadata = a.id
                    /\ events[i].createdAt >= a.updatedAt}
    IN IF faults.suspended \/ (faults.events /\ suspendedAccounts # {})
           THEN CriticalCheckResult("NO_USAGE_DURING_SUSPENSION", TRUE, TRUE)
           ELSE CriticalCheckResult("NO_USAGE_DURING_SUSPENSION", violating = {}, FALSE)

\* A check 2 that passes over a snapshot that is not there.
PaidInvoicesFinalizedMissingOk(invs, aggs, faults) ==
    CriticalCheckResult("PAID_INVOICES_FINALIZED",
        \A i \in {j \in invs : j.status = "PAID"} :
            HasDocument(aggs, i.aggregationSnapshotId)
                => GetDocument(aggs, i.aggregationSnapshotId).isFinalized,
        faults.paid)

\* Check 2: every PAID invoice with a snapshot has a finalized one; a read
\* of the aggregation that throws counts as a violation, a listing that
\* throws as a pass.
PaidInvoicesFinalized(invs, aggs, faults) ==
    LET paidInvoices == Limit({i \in invs : i.status = "PAID"}, PAID_LIMIT)
        violating ==
            {i \in paidInvoices :
                /\ i.aggregationSnapshotId # none
                /\ \/ faults.aggregation
                   \/ ~HasDocument(aggs, i.aggregationSnapshotId)
                   \/ ~GetDocument(aggs, i.aggregationSnapshotId).isFinalized}
    IN IF faults.paid
           THEN CriticalCheckResult("PAID_INVOICES_FINALIZED", TRUE, TRUE)
           ELSE CriticalCheckResult("PAID_INVOICES_FINALIZED", violating = {}, FALSE)

\* Check 3: no lock older than the threshold.
NoStaleCycleLocks(accts, clock, faults) ==
    LET lockedAccounts == Limit({a \in accts : a.isBillingCycleLocked = TRUE},
                                LOCKED_LIMIT)
        stale ==
            {a \in lockedAccounts :
                /\ a.billingCycleLockedAt # null
                /\ clock - a.billingCycleLockedAt > STALE_THRESHOLD_MINUTES}
    IN IF faults.locked
           THEN CriticalCheckResult("NO_STALE_CYCLE_LOCKS", TRUE, TRUE)
           ELSE CriticalCheckResult("NO_STALE_CYCLE_LOCKS", stale = {}, FALSE)

RunCriticalInvariantChecks(accts, events, invs, aggs, clock, faults) ==
    LET results == <<NoUsageDuringSuspension(accts, events, faults),
                     PaidInvoicesFinalized(invs, aggs, faults),
                     NoStaleCycleLocks(accts, clock, faults)>>
    IN [allPassed |-> \A i \in 1..Len(results) : results[i].passed,
        results |-> results]

(***************************************************************************)
(* Calls of the invariant checks.                                           *)
(***************************************************************************)
InvoiceIds == {"inv1", "inv2"}
AggregationIds == {"agg1", "agg2"}

CallAssertInvoiceUsageImmutable ==
    /\ call = NoCall
    /\ \E invoiceId \in InvoiceIds, failAt \in 0..2 :
        call' = Called("assertInvoiceUsageImmutable", [invoiceId |-> invoiceId], failAt,
                       AssertInvoiceUsageImmutable(invoices, aggregations, invoiceId, failAt))
    /\ UNCHANGED <<storeVars, lockVars, writerVars, seqLog, statusVars, alertVars, reconVars, checkVars, orgVars, socketVars>>

CallRunBillingInvariantChecks ==
    /\ call = NoCall
    /\ \E listFails \in BOOLEAN, failAt \in [InvoiceIds -> 0..2] :
        call' = Called("runBillingInvariantChecks",
                       [billingAccountId |-> BillingAccountId],
                       [list |-> listFails, check |-> failAt],
                       Returned(RunBillingInvariantChecks(
                                    invoices, aggregations, BillingAccountId,
                                    listFails, failAt)))
    /\ UNCHANGED <<storeVars, lockVars, writerVars, seqLog, statusVars, alertVars, reconVars, checkVars, orgVars, socketVars>>

CallRunCriticalInvariantChecks ==
    /\ call = NoCall
    /\ \E faults \in [suspended : BOOLEAN, events : BOOLEAN, paid : BOOLEAN,
                       aggregation : BOOLEAN, locked : BOOLEAN] :
        call' = Called("runCriticalInvariantChecks", [at |-> now], faults,
                       Returned(RunCriticalInvariantChecks(
                                    accounts, usageEventDocs, invoices, aggregations,
                                    now, faults)))
    /\ UNCHANGED <<storeVars, lockVars, writerVars, seqLog, statusVars, alertVars, reconVars, checkVars, orgVars, socketVars>>

CallAssertAggregationNotFinalized ==
    /\ call = NoCall
    /\ \E aggregationId \in AggregationIds, fails \in BOOLEAN :
        call' = Called("assertAggregationNotFinalized",
                       [aggregationId |-> aggregationId], [read |-> fails],
                       AssertAggregationNotFinalized(aggregations, aggregationId, fails))
    /\ UNCHANGED <<storeVars, lockVars, writerVars, seqLog, statusVars, alertVars, reconVars, checkVars, orgVars, socketVars>>

(***************************************************************************)
(* The environment-aware checks of billing-primitives.ts.  env is           *)
(* process.env.NODE_ENV.                                                    *)
(***************************************************************************)
IsDevelopment(env) == env = "development" \/ env = "test"

\* checkInvariant: nothing when the condition holds; else the error is
\* built, and thrown in development only.
CheckInvariant(condition, invariant, context, env) ==
    IF condition
        THEN ReturnedNormally
    ELSE IF IsDevelopment(env)
        THEN InvariantViolationError(invariant, context)
    ELSE ReturnedNormally

\* What a condition function does: it resolves to a boolean or it throws,
\* an InvariantViolationError of its own (as the assertions above do) or
\* another error.
ConditionOutcomes ==
    {Returned(TRUE), Returned(FALSE), StoreFailure,
     InvariantViolationError("INVOICE_USAGE_IMMUTABLE", "inv1")}

\* checkInvariantAsync: the catch rethrows every InvariantViolationError,
\* that of the checkInvariant call in the try and that of conditionFn, and
\* turns another exception into checkInvariant(false, ...).
CheckInvariantAsync(conditionFn, invariant, context, env) ==
    LET tried == IF conditionFn.kind = "returned"
                     THEN CheckInvariant(conditionFn.value, invariant, context, env)
                     ELSE conditionFn
    IN IF tried.kind = "threw"
           THEN IF tried.name = "InvariantViolationError"
                    THEN tried
                    ELSE CheckInvariant(FALSE, invariant, context, env)
           ELSE tried

CallCheckInvariant ==
    /\ call = NoCall
    /\ \E condition \in BOOLEAN :
        call' = Called("checkInvariant",
                       [condition |-> condition, invariant |-> "USAGE_DURING_SUSPENSION",
                        context |-> "acc_o1"],
                       0,
                       CheckInvariant(condition, "USAGE_DURING_SUSPENSION", "acc_o1", mode))
    /\ UNCHANGED <<storeVars, lockVars, writerVars, seqLog, statusVars, alertVars, reconVars, checkVars, orgVars, socketVars>>

CallCheckInvariantAsync ==
    /\ call = NoCall
    /\ \E conditionFn \in ConditionOutcomes :
        call' = Called("checkInvariantAsync",
                       [conditionFn |-> conditionFn, invariant |-> "USAGE_DURING_SUSPENSION",
                        context |-> "acc_o1"],
                       0,
                       CheckInvariantAsync(conditionFn, "USAGE_DURING_SUSPENSION",
                                           "acc_o1", mode))
    /\ UNCHANGED <<storeVars, lockVars, writerVars, seqLog, statusVars, alertVars, reconVars, checkVars, orgVars, socketVars>>

(***************************************************************************)
(* The organization ownership invariants of invariants.ts.  A member is a   *)
(* document of the organization members collection.                         *)
(***************************************************************************)
Member(id, organizationId, role) ==
    [id |-> id, organizationId |-> organizationId, role |-> role]
Owners(mems, organizationId) ==
    {m \in mems : m.organizationId = organizationId /\ m.role = "OWNER"}

\* throw new Error(`[INVARIANT VIOLATION: ${invariantName}] ...`)
InvariantError(invariantName) ==
    [kind |-> "threw", name |-> "Error", violation |-> invariantName]

\* assertInvariant: throws when the condition fails and NODE_ENV is
\* "development"; in every other mode it returns.
AssertInvariant(condition, invariantName, env) ==
    IF ~condition /\ env = "development"
        THEN InvariantError(invariantName)
        ELSE ReturnedNormally

\* validateOrgHasOwner: owners.total is the number of OWNER members of the
\* organization.
ValidateOrgHasOwner(mems, organizationId, env, fails) ==
    IF fails
        THEN StoreFailure
        ELSE AssertInvariant(Cardinality(Owners(mems, organizationId)) >= 1,
                             "ORG_MUST_HAVE_OWNER", env)

\* runOrgInvariantSelfChecks: a violation is pushed when validateOrgHasOwner
\* throws an error whose message holds "INVARIANT VIOLATION".
RunOrgInvariantSelfChecks(mems, organizationId, env, fails) ==
    LET thrown == ValidateOrgHasOwner(mems, organizationId, env, fails)
    IN CheckReport(IF thrown.kind = "threw" /\ thrown.violation # none
                       THEN {[invariantName |-> "ORG_MUST_HAVE_OWNER",
                              organizationId |-> organizationId]}
                       ELSE {})

OrganizationId == "o1"
MemberIds == {"m1", "m2", "m3"}
Removers == {"r1", "r2"}

CallRunOrgInvariantSelfChecks ==
    /\ call = NoCall
    /\ \E fails \in BOOLEAN :
        call' = Called("runOrgInvariantSelfChecks",
                       [organizationId |-> OrganizationId,
                        owners |-> Cardinality(Owners(members, OrganizationId))],
                       [list |-> fails],
                       Returned(RunOrgInvariantSelfChecks(members, OrganizationId,
                                                          mode, fails)))
    /\ UNCHANGED <<storeVars, lockVars, writerVars, seqLog, statusVars, alertVars, reconVars, checkVars, orgVars, socketVars>>

\* A removal of a member: validateNotLastOwner (one step per store call),
\* then, when it did not throw, the delete.
Removal(state, member, thrown) == [pc |-> state, member |-> member, thrown |-> thrown]

RemoveStart(p) ==
    /\ removals[p].pc \in {"idle", "removed", "rejected"}
    /\ \E member \in MemberIds :
        removals' = [removals EXCEPT ![p] = Removal("read", member, ReturnedNormally)]
    /\ UNCHANGED <<storeVars, lockVars, writerVars, seqLog, guardVars, statusVars, alertVars, reconVars, checkVars, members, socketVars>>

\* validateNotLastOwner: getDocument of the member; a member that is no
\* OWNER needs no more.
ValidateRead(p) ==
    /\ removals[p].pc = "read"
    /\ \E fails \in BOOLEAN :
        removals' = [removals EXCEPT ![p] =
            IF fails \/ ~HasDocument(members, removals[p].member)
                THEN Removal("rejected", removals[p].member, StoreFailure)
            ELSE IF GetDocument(members, removals[p].member).role # "OWNER"
                THEN Removal("validated", removals[p].member, ReturnedNormally)
            ELSE Removal("list", removals[p].member, ReturnedNormally)]
    /\ UNCHANGED <<storeVars, lockVars, writerVars, seqLog, guardVars, statusVars, alertVars, reconVars, checkVars, members, socketVars>>

\* validateNotLastOwner goes on: listDocuments of the OWNERs, then
\* assertInvariant(owners.total > 1, ...).
ValidateList(p) ==
    /\ removals[p].pc = "list"
    /\ \E fails \in BOOLEAN :
        LET thrown == IF fails
                          THEN StoreFailure
                          ELSE AssertInvariant(
                                   Cardinality(Owners(members, OrganizationId)) > 1,
                                   "CANNOT_REMOVE_LAST_OWNER", mode)
        IN removals' = [removals EXCEPT ![p] =
               Removal(IF thrown.kind = "threw" THEN "rejected" ELSE "validated",
                       removals[p].member, thrown)]
    /\ UNCHANGED <<storeVars, lockVars, writerVars, seqLog, guardVars, statusVars, alertVars, reconVars, checkVars, members, socketVars>>

\* The removal itself, performed only after validateNotLastOwner returned.
RemoveMember(p) ==
    /\ removals[p].pc = "validated"
    /\ members' = {m \in members : m.id # removals[p].member}
    /\ removals' = [removals EXCEPT ![p].pc = "removed"]
    /\ UNCHANGED <<storeVars, lockVars, writerVars, seqLog, guardVars, statusVars, alertVars, reconVars, checkVars, socketVars>>

(***************************************************************************)
(* The socket server: connectedUsers maps a userId to the set of socket     *)
(* ids tracked for it; a socket carries the userId property handleAuth      *)
(* stores on it (none: not set).                                            *)
(***************************************************************************)
SocketIds == {"s1", "s2", "s3"}
Socket(state, userId) == [state |-> state, userId |-> userId]

\* connectedUsers.size and isUserConnected(userId)
GetConnectedUserCount(map) == Cardinality(DOMAIN map)
IsUserConnected(map, userId) == userId \in DOMAIN map /\ map[userId] # {}

\* connectedUsers.get(userId).add(socketId), after a set(userId, new Set())
\* for a userId that has no entry.
Track(map, userId, socketId) ==
    [u \in DOMAIN map \cup {userId} |->
        IF u = userId
            THEN (IF userId \in DOMAIN map THEN map[userId] ELSE {}) \cup {socketId}
            ELSE map[u]]

\* userSockets.delete(socketId), and connectedUsers.delete(userId) when the
\* set is left empty; nothing when the userId has no entry.
Untrack(map, userId, socketId) ==
    IF userId \notin DOMAIN map
        THEN map
    ELSE IF map[userId] \ {socketId} = {}
        THEN [u \in DOMAIN map \ {userId} |-> map[u]]
    ELSE [map EXCEPT ![userId] = map[userId] \ {socketId}]

\* io.on("connection", handleConnection): a client connects.
HandleConnection(s) ==
    /\ sockets[s].state = "new"
    /\ sockets' = [sockets EXCEPT ![s] = Socket("connected", none)]
    /\ UNCHANGED connectedUsers
    /\ UNCHANGED <<storeVars, lockVars, writerVars, seqLog, guardVars, statusVars, alertVars, reconVars, checkVars, orgVars>>

\* auth:connect with a payload: no userId, or a socket.join that throws,
\* is answered with auth:error and changes nothing.
HandleAuth(s) ==
    /\ sockets[s].state = "connected"
    /\ \E userId \in Users \cup {none}, joinThrows \in BOOLEAN :
        IF userId = none \/ joinThrows
            THEN UNCHANGED <<connectedUsers, sockets>>
            ELSE /\ connectedUsers' = Track(connectedUsers, userId, s)
                 /\ sockets' = [sockets EXCEPT ![s].userId = userId]
    /\ UNCHANGED <<storeVars, lockVars, writerVars, seqLog, guardVars, statusVars, alertVars, reconVars, checkVars, orgVars>>

\* disconnect: the socket is dropped from the set of its userId property.
HandleDisconnect(s) ==
    /\ sockets[s].state = "connected"
    /\ sockets' = [sockets EXCEPT ![s].state = "disconnected"]
    /\ connectedUsers' = IF sockets[s].userId # none
                             THEN Untrack(connectedUsers, sockets[s].userId, s)
                             ELSE connectedUsers
    /\ UNCHANGED <<storeVars, lockVars, writerVars, seqLog, guardVars, statusVars, alertVars, reconVars, checkVars, orgVars>>

(***************************************************************************)
(* Specifications.                                                          *)
(***************************************************************************)
LockInit ==
    /\ accounts = {Account(BillingAccountId, ORG, "o1", none, ACTIVE, FALSE, null)}
    /\ workspaces = {}
    /\ now = 1
    /\ pc = [p \in Workers |-> "idle"]
    /\ lockTimestamp = [p \in Workers |-> null]
    /\ result = [p \in Workers |-> NoResult]
    /\ wpc = "idle"
    /\ usageEvents = 0
    /\ raceOn = FALSE
    /\ lockHeld = FALSE
    /\ seqLog = <<>>
    /\ call = NoCall
    /\ statusLog = <<>>
    /\ transition = NoTransition
    /\ NoAlertJob
    /\ NoReconciliation
    /\ NoChecks
    /\ NoOrganization
    /\ NoSockets

Init == LockInit

Next ==
    \/ \E p \in Workers : LockStart(p, FALSE)
    \/ \E p \in Workers : LockRead(p, FALSE)
    \/ \E p \in Workers : LockWrite(p, FALSE)
    \/ \E p \in Workers : LockVerify(p, FALSE)
    \/ \E p \in Workers : UnlockStart(p, FALSE)
    \/ \E p \in Workers : UnlockWrite(p, FALSE)
    \/ WriterCheck
    \/ WriterRecord
    \/ Tick

Spec == Init /\ [][Next]_vars

\* One caller, one call after the other.
SeqNext ==
    \/ LockStart(Caller, TRUE)
    \/ LockRead(Caller, TRUE)
    \/ LockWrite(Caller, TRUE)
    \/ LockVerify(Caller, TRUE)
    \/ UnlockStart(Caller, TRUE)
    \/ UnlockWrite(Caller, TRUE)
    \/ Tick

SeqSpec == LockInit /\ [][SeqNext]_vars

\* Status changes of one account, from any status.
StatusInit ==
    /\ \E status \in BillingStatus :
        /\ accounts = {Account(BillingAccountId, ORG, "o1", none, status, FALSE, null)}
        /\ statusLog = <<status>>
    /\ workspaces = {}
    /\ now = 1
    /\ pc = [p \in Workers |-> "idle"]
    /\ lockTimestamp = [p \in Workers |-> null]
    /\ result = [p \in Workers |-> NoResult]
    /\ wpc = "idle"
    /\ usageEvents = 0
    /\ raceOn = FALSE
    /\ lockHeld = FALSE
    /\ seqLog = <<>>
    /\ call = NoCall
    /\ transition = NoTransition
    /\ NoAlertJob
    /\ NoReconciliation
    /\ NoChecks
    /\ NoOrganization
    /\ NoSockets

StatusNext == \E to \in BillingStatus : ChangeStatus(to)

StatusSpec == StatusInit /\ [][StatusNext]_vars

\* Lookups and guards on any store of at most MaxAccounts accounts, one per
\* owner, and at most one workspace.
GuardInit ==
    /\ \E owners \in SUBSET (Orgs \cup Users) :
        /\ Cardinality(owners) <= MaxAccounts
        /\ \E status \in [owners -> BillingStatus], locked \in [owners -> BOOLEAN] :
            accounts = {AccountOfOwner(o, status[o], locked[o]) : o \in owners}
    /\ \/ workspaces = {}
       \/ \E o \in {none} \cup Orgs, u \in {none} \cup Users :
            workspaces = {Workspace(WorkspaceId, o, u)}
    /\ now = 1
    /\ pc = [p \in Workers |-> "idle"]
    /\ lockTimestamp = [p \in Workers |-> null]
    /\ result = [p \in Workers |-> NoResult]
    /\ wpc = "idle"
    /\ usageEvents = 0
    /\ raceOn = FALSE
    /\ lockHeld = FALSE
    /\ seqLog = <<>>
    /\ call = NoCall
    /\ statusLog = <<>>
    /\ transition = NoTransition
    /\ NoAlertJob
    /\ NoReconciliation
    /\ NoChecks
    /\ NoOrganization
    /\ NoSockets

GuardNext ==
    \/ CallGetBillingAccount
    \/ CallAssertBillingActive
    \/ CallAssertBillingNotSuspended
    \/ CallAssertCanWriteUsage

GuardSpec == GuardInit /\ [][GuardNext]_vars

\* No lock call, writer, status change or guard call is under way.
Idle ==
    /\ pc = [p \in Workers |-> "idle"]
    /\ lockTimestamp = [p \in Workers |-> null]
    /\ result = [p \in Workers |-> NoResult]
    /\ wpc = "idle"
    /\ usageEvents = 0
    /\ raceOn = FALSE
    /\ lockHeld = FALSE
    /\ seqLog = <<>>
    /\ call = NoCall
    /\ statusLog = <<>>
    /\ transition = NoTransition

\* An account with its billing cycle (start before end), or no account, and
\* any clock; adjustEventForLockedCycle is applied to any event timestamp.
CycleAccount(locked, cycleStart, cycleEnd) ==
    Account(BillingAccountId, ORG, "o1", none, ACTIVE, locked, IF locked THEN 1 ELSE null)
        @@ [billingCycleStart |-> cycleStart, billingCycleEnd |-> cycleEnd]

AdjustInit ==
    /\ \/ accounts = {}
       \/ \E locked \in BOOLEAN, cycleStart \in 1..MaxInstant, cycleEnd \in 1..MaxInstant,
             form \in {"iso", "date"} :
            /\ cycleStart < cycleEnd
            /\ accounts = {CycleAccount(locked, Timestamp(cycleStart, form),
                                        Timestamp(cycleEnd, "iso"))}
    /\ workspaces = {}
    /\ now \in Instants
    /\ Idle
    /\ NoAlertJob
    /\ NoReconciliation
    /\ NoChecks
    /\ NoOrganization
    /\ NoSockets

AdjustNext == CallAdjustEvent

AdjustSpec == AdjustInit /\ [][AdjustNext]_vars

\* An account of any status whose grace period ends within MaxGraceHours of
\* the clock, a millisecond before or after a full hour or on it, or that has
\* no gracePeriodEnd; or no account.
GraceAccount(status, gracePeriodEnd) ==
    Account(BillingAccountId, ORG, "o1", none, status, FALSE, null)
        @@ [gracePeriodEnd |-> gracePeriodEnd]

GraceOffsets ==
    {h * MsPerHour + ms : h \in (0 - MaxGraceHours)..MaxGraceHours, ms \in {0 - 1, 0, 1}}

WarningInit ==
    /\ now = (MaxGraceHours + 1) * MsPerHour
    /\ \/ accounts = {}
       \/ \E status \in BillingStatus :
            \/ accounts = {GraceAccount(status, NoTimestamp)}
            \/ \E offset \in GraceOffsets :
                 accounts = {GraceAccount(status, Timestamp(now + offset, "iso"))}
    /\ workspaces = {}
    /\ Idle
    /\ NoAlertJob
    /\ NoReconciliation
    /\ NoChecks
    /\ NoOrganization
    /\ NoSockets

WarningNext == CallGetAccountWarningState

WarningSpec == WarningInit /\ [][WarningNext]_vars

\* Two alerts of one workspace whose account is ACTIVE or SUSPENDED.  An
\* alert has never been triggered, or was two ticks or one tick ago; it
\* notifies in the app, by e-mail or by webhook, with or without a
\* webhookUrl, when the month's usage reaches 2.  The first alert is enabled;
\* the second is an in-app alert or a webhook without webhookUrl, never
\* triggered or triggered one tick ago.
AlertChannels ==
    {<<"in_app", none>>, <<"email", none>>, <<"webhook", "url">>, <<"webhook", none>>}

AlertInit ==
    /\ \E status \in {ACTIVE, SUSPENDED} :
        accounts = {Account(BillingAccountId, ORG, "o1", none, status, FALSE, null)}
    /\ workspaces = {Workspace(WorkspaceId, "o1", none)}
    /\ now = 2 * COOLDOWN_HOURS
    /\ \E enabled \in [{"al1", "al2"} -> BOOLEAN],
          channel \in [{"al1", "al2"} -> AlertChannels],
          last \in [{"al1", "al2"} -> {null, now - 2 * TickHours, now - TickHours}] :
        /\ enabled["al1"]
        /\ channel["al2"] \in {<<"in_app", none>>, <<"webhook", none>>}
        /\ last["al2"] \in {null, now - TickHours}
        /\ alerts = [id \in {"al1", "al2"} |->
                        UsageAlert(id, enabled[id], channel[id][1], channel[id][2],
                                   2, last[id])]
    /\ monthUsage \in 1..MaxUsage
    /\ job = Job("idle", <<>>, 1, <<>>, 0, none)
    /\ visits = <<>>
    /\ dispatched = {}
    /\ NoReconciliation
    /\ NoChecks
    /\ NoOrganization
    /\ NoSockets
    /\ Idle

AlertNext ==
    \/ RunStart
    \/ SkipAlert
    \/ EvaluateNext
    \/ RunReturn
    \/ Advance

AlertSpec == AlertInit /\ [][AlertNext]_vars

\* One aggregation of workspace w1 for one month, each stored value 0 or
\* 100 (MiB, or units), and up to MaxReconEvents events of 1 to 102 MiB or
\* units, of the workspace and the month or of another workspace or month.
ReconEvents ==
    {UsageEvent(place[1], place[2], kind[1], kind[2], kind[3]) :
        place \in {<<WorkspaceId, "2024-01">>, <<"w2", "2024-01">>, <<WorkspaceId, "2024-02">>},
        kind \in {<<"traffic", 1 * MiB, 0>>, <<"traffic", 101 * MiB, 0>>,
                  <<"traffic", 102 * MiB, 0>>,
                  <<"storage", 100 * MiB, 0>>, <<"storage", 102 * MiB, 0>>,
                  <<"compute", 100, 0>>, <<"compute", 102, 0>>,
                  <<"compute", 100, 101>>, <<"compute", 102, 100>>}}

ReconInit ==
    /\ \E traffic \in {0, 100}, storage \in {0, 100}, compute \in {0, 100} :
        aggregations = {UsageAggregation(AggregationId, WorkspaceId, "2024-01",
                                         traffic, storage, compute)}
    /\ \E n \in 0..MaxReconEvents : usageEventDocs \in [1..n -> ReconEvents]
    /\ accounts = {}
    /\ workspaces = {}
    /\ now = 1
    /\ Idle
    /\ NoAlertJob
    /\ NoChecks
    /\ NoOrganization
    /\ NoSockets

ReconNext == CallAssertAggregationMatchesEvents

ReconSpec == ReconInit /\ [][ReconNext]_vars

\* The invoices of the account (and one of another account), the
\* aggregation agg1 (agg2 is in no collection), an account that is or is
\* not suspended and locked, and a usage event before or since its update.
CheckClock == 100
CheckAccountUpdatedAt == 10
CheckInit ==
    /\ \E status \in [InvoiceIds -> {"PAID", "draft"}],
          snapshot \in [InvoiceIds -> {none} \cup AggregationIds],
          second \in {none, BillingAccountId, "acc_o2"} :
        invoices = {Invoice("inv1", BillingAccountId, status["inv1"], snapshot["inv1"])}
                       \cup (IF second = none
                                 THEN {}
                                 ELSE {Invoice("inv2", second, status["inv2"],
                                               snapshot["inv2"])})
    /\ \E isFinalized \in BOOLEAN : aggregations = {Aggregation("agg1", isFinalized)}
    /\ \E status \in {ACTIVE, SUSPENDED},
          lockedAt \in {null, CheckClock - STALE_THRESHOLD_MINUTES,
                        CheckClock - STALE_THRESHOLD_MINUTES - 1},
          locked \in BOOLEAN :
        /\ lockedAt # null => locked
        /\ accounts = {Account(BillingAccountId, ORG, "o1", none, status, locked, lockedAt)
                           @@ [updatedAt |-> CheckAccountUpdatedAt]}
    /\ \E n \in 0..1 :
        usageEventDocs \in [1..n -> [metadata : {BillingAccountId},
                                     createdAt : {CheckAccountUpdatedAt - 1,
                                                  CheckAccountUpdatedAt}]]
    /\ workspaces = {}
    /\ now = CheckClock
    /\ mode = "production"
    /\ Idle
    /\ NoAlertJob
    /\ NoOrganization
    /\ NoSockets

CheckNext ==
    \/ CallAssertInvoiceUsageImmutable
    \/ CallRunBillingInvariantChecks
    \/ CallRunCriticalInvariantChecks
    \/ CallAssertAggregationNotFinalized

CheckSpec == CheckInit /\ [][CheckNext]_vars

\* Any mode, any members of the organization, no removal under way.
EnvInit ==
    /\ mode \in {"development", "test", "production"}
    /\ \E present \in SUBSET MemberIds, role \in [MemberIds -> {"OWNER", "MEMBER"}] :
        members = {Member(id, OrganizationId, role[id]) : id \in present}
    /\ removals = [p \in Removers |-> Removal("idle", none, ReturnedNormally)]
    /\ accounts = {}
    /\ workspaces = {}
    /\ now = 1
    /\ invoices = {}
    /\ Idle
    /\ NoAlertJob
    /\ NoReconciliation
    /\ NoSockets

EnvNext ==
    \/ CallCheckInvariant
    \/ CallCheckInvariantAsync
    \/ CallRunOrgInvariantSelfChecks
    \/ \E p \in Removers : RemoveStart(p)
    \/ \E p \in Removers : ValidateRead(p)
    \/ \E p \in Removers : ValidateList(p)
    \/ \E p \in Removers : RemoveMember(p)

EnvSpec == EnvInit /\ [][EnvNext]_vars

\* The server has started: no client yet.
SocketInit ==
    /\ connectedUsers = <<>>
    /\ sockets = [s \in SocketIds |-> Socket("new", none)]
    /\ accounts = {}
    /\ workspaces = {}
    /\ now = 1
    /\ Idle
    /\ NoAlertJob
    /\ NoReconciliation
    /\ NoChecks
    /\ NoOrganization

SocketNext ==
    \/ \E s \in SocketIds : HandleConnection(s)
    \/ \E s \in SocketIds : HandleAuth(s)
    \/ \E s \in SocketIds : HandleDisconnect(s)

SocketSpec == SocketInit /\ [][SocketNext]_vars

(***************************************************************************)
(* The billing cycle lock under concurrency.                                *)
(***************************************************************************)
Other(p) == CHOOSE q \in Workers : q # p

\* C1: when two concurrent lockBillingCycle calls both read "unlocked" before
\* either writes (no store error, distinct timestamps), exactly one returns
\* success:true and the other returns alreadyLocked:true with the winner's
\* timestamp as lockedAt.
C1_ExactlyOneLockWins ==
    (/\ raceOn
     /\ \A p \in Workers : pc[p] = "done"
     /\ lockTimestamp["p1"] # lockTimestamp["p2"])
    => \E w \in Workers :
        /\ result[w] = LockResult(TRUE, FALSE, lockTimestamp[w], none)
        /\ result[Other(w)] = LockResult(FALSE, TRUE, lockTimestamp[w], none)

\* C2: no usage event is recorded after a lockBillingCycle call has returned
\* success:true and before unlockBillingCycle is called.
C2_NoUsageWhileLocked == [][usageEvents' # usageEvents => ~lockHeld]_vars

\* C4: in every state reachable by interleavings of lock and unlock calls,
\* isBillingCycleLocked = true implies billingCycleLockedAt is not null.
C4_LockedImpliesLockedAt ==
    \A a \in accounts : a.isBillingCycleLocked = TRUE => a.billingCycleLockedAt # null

\* C4's case: the account is locked while an unlock call is in flight.
C4_Witness ==
    /\ GetDocument(accounts, BillingAccountId).isBillingCycleLocked
    /\ \E p \in Workers : pc[p] = "unlock_write"
    /\ \E p \in Workers : pc[p] = "lock_verify"

(***************************************************************************)
(* The billing cycle lock called in sequence.                               *)
(***************************************************************************)
\* Two lock calls in a row on an unlocked account, neither with a store error.
LockedTwice(i) ==
    /\ i + 1 <= Len(seqLog)
    /\ seqLog[i].op = "lock" /\ seqLog[i + 1].op = "lock"
    /\ ~seqLog[i].lockedBefore
    /\ seqLog[i].result # NoResult /\ seqLog[i + 1].result # NoResult
    /\ seqLog[i].result.error = none /\ seqLog[i + 1].result.error = none

\* C3: lockBillingCycle twice in sequence on an unlocked account returns
\* {success:true, alreadyLocked:false, lockedAt:T} and then
\* {success:false, alreadyLocked:true, lockedAt:T} with the same T, and the
\* second call writes nothing.
C3_LockTwiceInSequence ==
    \A i \in 1..MaxSeqCalls :
        LockedTwice(i) =>
            \E T \in Times :
                /\ seqLog[i].result = LockResult(TRUE, FALSE, T, none)
                /\ seqLog[i].wrote
                /\ seqLog[i + 1].result = LockResult(FALSE, TRUE, T, none)
                /\ ~seqLog[i + 1].wrote

\* C3's case: the second of two such calls has returned, later than the first started.
C3_Witness ==
    \E i \in 1..MaxSeqCalls :
        /\ LockedTwice(i)
        /\ seqLog[i + 1].result.alreadyLocked
        /\ now > seqLog[i].result.lockedAt

(***************************************************************************)
(* The billing status state machine.                                        *)
(***************************************************************************)
\* C5: assertValidStatusTransition(from, to) returns iff to = from or
\* (from, to) is ACTIVE->DUE, DUE->ACTIVE, DUE->SUSPENDED or
\* SUSPENDED->ACTIVE, and throws otherwise; assertStatusTransition throws
\* STATUS_TRANSITION exactly then.
C5_TransitionTable ==
    transition # NoTransition =>
        /\ transition.accepted <=>
              \/ transition.to = transition.from
              \/ <<transition.from, transition.to>> \in
                    {<<ACTIVE, DUE>>, <<DUE, ACTIVE>>, <<DUE, SUSPENDED>>, <<SUSPENDED, ACTIVE>>}
        /\ transition.accepted <=> transition.error = NoError
        /\ ~transition.accepted =>
              /\ transition.error.invariant = "STATUS_TRANSITION"
              /\ transition.error.context.from = transition.from
              /\ transition.error.context.to = transition.to

\* C5's case: SUSPENDED -> DUE was asked for and rejected, after an accepted change.
C5_Witness ==
    /\ transition # NoTransition
    /\ transition.from = SUSPENDED /\ transition.to = DUE
    /\ ~transition.accepted
    /\ Len(statusLog) > 1

\* C6: an account that is ACTIVE never becomes SUSPENDED without being DUE
\* at some step in between.
C6_NoSuspensionWithoutDue ==
    \A i, j \in DOMAIN statusLog :
        (i < j /\ statusLog[i] = ACTIVE /\ statusLog[j] = SUSPENDED)
            => \E k \in DOMAIN statusLog : i < k /\ k < j /\ statusLog[k] = DUE

\* C6's case: an account that was ACTIVE is SUSPENDED now.
C6_Witness ==
    /\ statusLog # <<>>
    /\ statusLog[1] = ACTIVE
    /\ GetDocument(accounts, BillingAccountId).billingStatus = SUSPENDED

(***************************************************************************)
(* The guards and the lookup.                                               *)
(***************************************************************************)
\* What getBillingAccount resolved in the call.
Resolved == GetBillingAccount(accounts, workspaces, call.options, call.failAt)

\* C7: assertCanWriteUsage returns {account:null, allowed:true} when no
\* account resolves, throws BILLING_SUSPENDED when the account is SUSPENDED
\* (locked or not), throws BILLING_CYCLE_LOCKED when it is not SUSPENDED and
\* locked, returns {account, allowed:true} otherwise, and never returns
\* allowed:false.
C7_CanWriteUsageOutcomes ==
    call.fn = "assertCanWriteUsage" =>
        /\ Resolved = NoAccount =>
              call.outcome = Returned([account |-> NoAccount, allowed |-> TRUE])
        /\ (Resolved # NoAccount /\ Resolved.billingStatus = SUSPENDED) =>
              (call.outcome.kind = "threw" /\ call.outcome.code = "BILLING_SUSPENDED")
        /\ (/\ Resolved # NoAccount
            /\ Resolved.billingStatus # SUSPENDED
            /\ Resolved.isBillingCycleLocked) =>
              (call.outcome.kind = "threw" /\ call.outcome.code = "BILLING_CYCLE_LOCKED")
        /\ (/\ Resolved # NoAccount
            /\ Resolved.billingStatus # SUSPENDED
            /\ ~Resolved.isBillingCycleLocked) =>
              call.outcome = Returned([account |-> Resolved, allowed |-> TRUE])
        /\ call.outcome.kind = "returned" => call.outcome.value.allowed

\* C7's case: the account is SUSPENDED and its cycle is locked.
C7_Witness ==
    /\ call.fn = "assertCanWriteUsage"
    /\ Resolved # NoAccount
    /\ Resolved.billingStatus = SUSPENDED
    /\ Resolved.isBillingCycleLocked
    /\ call.outcome.kind = "threw"

\* C8: assertBillingActive returns the account when it is ACTIVE, throws
\* BILLING_SUSPENDED when SUSPENDED and BILLING_DUE when DUE, each error
\* carrying the account id and status, and returns null when no account
\* resolves.
C8_BillingActiveOutcomes ==
    call.fn = "assertBillingActive" =>
        /\ Resolved = NoAccount => call.outcome = Returned(NoAccount)
        /\ (Resolved # NoAccount /\ Resolved.billingStatus = ACTIVE) =>
              call.outcome = Returned(Resolved)
        /\ (Resolved # NoAccount /\ Resolved.billingStatus = SUSPENDED) =>
              call.outcome = Threw("BILLING_SUSPENDED", Resolved.id, SUSPENDED)
        /\ (Resolved # NoAccount /\ Resolved.billingStatus = DUE) =>
              call.outcome = Threw("BILLING_DUE", Resolved.id, DUE)

\* C8's case: the account is DUE and the error names it.
C8_Witness ==
    /\ call.fn = "assertBillingActive"
    /\ Resolved # NoAccount
    /\ Resolved.billingStatus = DUE
    /\ call.outcome.kind = "threw"
    /\ call.outcome.billingAccountId = Resolved.id

\* The stored accounts a lookup matches through any of its three keys.
Matching(options) ==
    {a \in accounts :
        \/ options.organizationId # none /\ a.type = ORG
             /\ a.organizationId = options.organizationId
        \/ options.userId # none /\ a.type = PERSONAL /\ a.userId = options.userId
        \/ \E w \in workspaces :
             /\ w.id = options.workspaceId
             /\ \/ w.organizationId # none /\ a.type = ORG
                     /\ a.organizationId = w.organizationId
                \/ w.userId # none /\ a.type = PERSONAL /\ a.userId = w.userId}

\* C9: assertBillingNotSuspended throws BILLING_SUSPENDED iff an account
\* resolves and is SUSPENDED; for ACTIVE and DUE it returns the account; when
\* the lookup matches no stored account, getBillingAccount returns null and
\* the assertion returns null.
C9_NotSuspendedOutcomes ==
    call.fn = "assertBillingNotSuspended" =>
        /\ call.outcome.kind = "threw" <=>
              (Resolved # NoAccount /\ Resolved.billingStatus = SUSPENDED)
        /\ call.outcome.kind = "threw" => call.outcome.code = "BILLING_SUSPENDED"
        /\ (Resolved # NoAccount /\ Resolved.billingStatus \in {ACTIVE, DUE}) =>
              call.outcome = Returned(Resolved)
        /\ Matching(call.options) = {} =>
              (Resolved = NoAccount /\ call.outcome = Returned(NoAccount))

\* C9's case: a DUE account is let through.
C9_Witness ==
    /\ call.fn = "assertBillingNotSuspended"
    /\ Resolved # NoAccount
    /\ Resolved.billingStatus = DUE
    /\ call.outcome.kind = "returned"

\* The accounts each priority of a lookup finds, in a store that does not fail.
ByOrganization(options) ==
    {a \in accounts : options.organizationId # none /\ a.type = ORG
                        /\ a.organizationId = options.organizationId}
ByWorkspace(options) ==
    {a \in accounts : \E w \in workspaces :
        /\ w.id = options.workspaceId
        /\ IF w.organizationId # none
               THEN a.type = ORG /\ a.organizationId = w.organizationId
               ELSE w.userId # none /\ a.type = PERSONAL /\ a.userId = w.userId}
ByUser(options) ==
    {a \in accounts : options.userId # none /\ a.type = PERSONAL
                        /\ a.userId = options.userId}

\* No store call of the lookup fails: none throws, and a workspace asked for exists.
NoStoreFailure ==
    /\ call.failAt = 0
    /\ call.options.workspaceId # none => HasDocument(workspaces, call.options.workspaceId)

\* C10: absent store failures, getBillingAccount returns the first account
\* found in the order: ORG account of options.organizationId; the workspace's
\* ORG account when the workspace has an organizationId, else its userId's
\* PERSONAL account; PERSONAL account of options.userId; and null only when
\* none of these lookups finds an account.
C10_ResolutionOrder ==
    (call.fn = "getBillingAccount" /\ NoStoreFailure) =>
        LET found == call.outcome.value
            options == call.options
        IN IF ByOrganization(options) # {} THEN found \in ByOrganization(options)
           ELSE IF ByWorkspace(options) # {} THEN found \in ByWorkspace(options)
           ELSE IF ByUser(options) # {} THEN found \in ByUser(options)
           ELSE found = NoAccount

\* C10's case: the workspace's account is returned though options.userId has one too.
C10_Witness ==
    /\ call.fn = "getBillingAccount" /\ NoStoreFailure
    /\ call.options.organizationId # none
    /\ ByOrganization(call.options) = {}
    /\ ByWorkspace(call.options) # {}
    /\ ByUser(call.options) # {}
    /\ call.outcome.value \in ByWorkspace(call.options)
    /\ call.outcome.value \notin ByUser(call.options)

(***************************************************************************)
(* Store failures inside the lookup.                                        *)
(***************************************************************************)
\* A store call the lookup made has thrown.
StoreCallFailed ==
    OrganizationLookup(accounts, workspaces, call.options, call.failAt) = StoreError

\* The account a lookup on a working store returns for the same options.
StoredAccount == GetBillingAccount(accounts, workspaces, call.options, 0)

\* C11: getBillingAccount never throws, and whenever a store call made
\* inside it fails it returns null; assertBillingNotSuspended and
\* assertCanWriteUsage then allow the operation, whatever status and lock
\* the stored account has.
C11_StoreFailureFailsOpen ==
    /\ call.fn = "getBillingAccount" => call.outcome.kind = "returned"
    /\ (call # NoCall /\ StoreCallFailed) =>
        /\ call.fn = "getBillingAccount" => call.outcome = Returned(NoAccount)
        /\ call.fn = "assertBillingNotSuspended" => call.outcome = Returned(NoAccount)
        /\ call.fn = "assertCanWriteUsage" =>
              call.outcome = Returned([account |-> NoAccount, allowed |-> TRUE])

\* C11's case: a list call throws, the stored account is SUSPENDED and
\* locked, and assertCanWriteUsage allows the write.
C11_Witness ==
    /\ call.fn = "assertCanWriteUsage"
    /\ call.failAt > 0 /\ StoreCallFailed
    /\ StoredAccount # NoAccount
    /\ StoredAccount.billingStatus = SUSPENDED
    /\ StoredAccount.isBillingCycleLocked
    /\ call.outcome.kind = "returned" /\ call.outcome.value.allowed

(***************************************************************************)
(* unlockBillingCycle called in sequence.                                   *)
(***************************************************************************)
\* The step in which an unlockBillingCycle call of the caller returns.
UnlockReturns == pc[Caller] = "unlock_write" /\ pc'[Caller] = "done"

\* The call before the one in progress was an unlock that returned true.
AfterAnUnlock ==
    /\ Len(seqLog) >= 2
    /\ seqLog[Len(seqLog) - 1].op = "unlock"
    /\ seqLog[Len(seqLog) - 1].result = UnlockResult(TRUE)

\* C15: unlockBillingCycle sets isBillingCycleLocked to false and
\* billingCycleLockedAt to null in one write and changes nothing else; it
\* returns true unless the store call fails (and then writes nothing); a call
\* that follows a successful unlock leaves the account as that one left it.
C15_UnlockIdempotent ==
    [][UnlockReturns =>
        LET before == GetDocument(accounts, BillingAccountId)
            after == GetDocument(accounts', BillingAccountId)
            entry == seqLog'[Len(seqLog')]
        IN /\ result'[Caller] = UnlockResult(entry.wrote)
           /\ entry.wrote =>
                 after = [before EXCEPT !.isBillingCycleLocked = FALSE,
                                        !.billingCycleLockedAt = null]
           /\ ~entry.wrote => after = before
           /\ (AfterAnUnlock /\ entry.wrote) => after = before]_vars

\* C15's case: a lock, then two unlocks in a row that both returned true.
C15_Witness ==
    /\ Len(seqLog) = 3
    /\ seqLog[1].op = "lock" /\ seqLog[1].result # NoResult /\ seqLog[1].result.success
    /\ seqLog[2].op = "unlock" /\ seqLog[2].lockedBefore
    /\ seqLog[2].result = UnlockResult(TRUE)
    /\ seqLog[3].op = "unlock" /\ ~seqLog[3].lockedBefore
    /\ seqLog[3].result = UnlockResult(TRUE)
    /\ ~GetDocument(accounts, BillingAccountId).isBillingCycleLocked
    /\ GetDocument(accounts, BillingAccountId).billingCycleLockedAt = null

(***************************************************************************)
(* Late and future events.                                                  *)
(***************************************************************************)
\* The instant a timestamp string names.
InstantOf(string) == NewDate(string).time
Names(string, time) == NewDate(string) = DateOf(time)

\* C12: adjustEventForLockedCycle never throws and returns: with no account
\* the input timestamp, wasAdjusted false; else if the cycle is locked and
\* the event is before cycleStart, the instant of cycleStart, wasAdjusted
\* true; else if the event is after cycleEnd, the current instant,
\* wasAdjusted true; otherwise the input timestamp, wasAdjusted false.
C12_AdjustReference ==
    call.fn = "adjustEventForLockedCycle" =>
        LET event == call.options
            account == TheAccount
            out == call.outcome
        IN /\ out.kind = "returned"
           /\ IF account = NoAccount
                  THEN out.value.timestamp = event /\ ~out.value.wasAdjusted
              ELSE IF /\ account.isBillingCycleLocked
                      /\ event # Garbage
                      /\ event.instant < InstantOf(account.billingCycleStart)
                  THEN /\ Names(out.value.timestamp, InstantOf(account.billingCycleStart))
                       /\ out.value.wasAdjusted
              ELSE IF event # Garbage /\ event.instant > InstantOf(account.billingCycleEnd)
                  THEN Names(out.value.timestamp, now) /\ out.value.wasAdjusted
              ELSE out.value.timestamp = event /\ ~out.value.wasAdjusted

\* C12's case: an event before cycleStart on an unlocked account comes back
\* as it was.
C12_Witness ==
    /\ call.fn = "adjustEventForLockedCycle"
    /\ TheAccount # NoAccount /\ ~TheAccount.isBillingCycleLocked
    /\ call.options # Garbage
    /\ call.options.instant < InstantOf(TheAccount.billingCycleStart)
    /\ call.outcome = Returned(Adjustment(call.options, FALSE, none))

(***************************************************************************)
(* The warning banner.                                                      *)
(***************************************************************************)
\* Milliseconds from the clock to the account's gracePeriodEnd.
MsToGraceEnd(account) == NewDate(account.gracePeriodEnd).time - now

C14_NormalOnlyWhenActive ==
    call.fn = "getAccountWarningState" =>
        LET account == call.options
            warning == call.outcome.value.warning
        IN /\ warning.state = "NORMAL" =>
                (account = NoAccount \/ account.billingStatus = ACTIVE)
           /\ (account # NoAccount /\ account.billingStatus = DUE) =>
                warning.state \in {"WARNING", "CRITICAL"}
           /\ (account # NoAccount /\ account.billingStatus \in {DUE, SUSPENDED}) =>
                call.outcome.value.shown

(***************************************************************************)
(* The alert evaluation job.                                                *)
(***************************************************************************)
\* The alert's last trigger is null or at least 24 hours before the clock.
Eligible(alert, clock) ==
    alert.lastTriggeredAt = null \/ clock - alert.lastTriggeredAt >= 24

\* A run has returned its results.
RunComplete == job.pc = "idle" /\ job.runs > 0 /\ job.threw = none

\* The result entry of the i-th alert the run came to, if it was evaluated.
ResultOf(i) == job.results[Cardinality({j \in 1..i : visits[j].evaluated})]

\* The stored lastTriggeredAt of the i-th alert is what the run read.
Unstamped(i) ==
    alerts[visits[i].alertId].lastTriggeredAt = job.batch[i].lastTriggeredAt

\* The run has come to the enabled alerts, each once and in order, and the
\* results are those of the alerts it evaluated, in order.
ResultsFollowVisits ==
    /\ Len(visits) <= Len(job.batch)
    /\ \A i \in 1..Len(visits) : visits[i].alertId = job.batch[i].id
    /\ Len(job.results) = Cardinality({i \in 1..Len(visits) : visits[i].evaluated})
    /\ \A i \in 1..Len(visits) :
          visits[i].evaluated => ResultOf(i).alertId = visits[i].alertId
    /\ RunComplete =>
          /\ Len(visits) = Len(job.batch)
          /\ {job.batch[i].id : i \in 1..Len(job.batch)}
                = {id \in DOMAIN alerts : alerts[id].isEnabled}

\* C16: evaluateAllAlerts evaluates an enabled alert iff its lastTriggeredAt
\* is null or at least 24 hours before now; an alert triggered less than 24
\* hours ago gets no result entry, no notification and no write.
C16_CooldownGate ==
    job.threw = none =>
        /\ ResultsFollowVisits
        /\ \A i \in 1..Len(visits) :
              /\ visits[i].evaluated <=> Eligible(job.batch[i], visits[i].at)
              /\ ~visits[i].evaluated => visits[i].dispatch = "none" /\ Unstamped(i)

\* C16's case: a run that evaluated an alert triggered exactly 24 hours ago
\* and passed over one triggered 12 hours ago.
C16_Witness ==
    /\ RunComplete /\ Len(visits) = 2
    /\ visits[1].evaluated
    /\ job.batch[1].lastTriggeredAt = visits[1].at - 24
    /\ ~visits[2].evaluated
    /\ job.batch[2].lastTriggeredAt = visits[2].at - 12
    /\ Len(job.results) = 1

\* C17: evaluateAlert for an alert whose workspace resolves to a SUSPENDED
\* account returns triggered:false, notificationSent:false and an error,
\* dispatches nothing and leaves lastTriggeredAt, whatever usage and
\* threshold are.
C17_SuspendedSkipped ==
    job.threw = none =>
        \A i \in 1..Len(visits) :
            (/\ visits[i].evaluated
             /\ visits[i].account # NoAccount
             /\ visits[i].account.billingStatus = SUSPENDED) =>
                /\ ~ResultOf(i).triggered
                /\ ~ResultOf(i).notificationSent
                /\ ResultOf(i).error # none
                /\ visits[i].dispatch = "none"
                /\ Unstamped(i)

\* C17's case: the usage has reached the threshold of an alert of a
\* suspended account.
C17_Witness ==
    /\ Len(visits) >= 1 /\ visits[1].evaluated
    /\ visits[1].account # NoAccount
    /\ visits[1].account.billingStatus = SUSPENDED
    /\ monthUsage >= job.batch[1].threshold
    /\ job.results[1].error # none

\* C18: evaluateAlert writes lastTriggeredAt iff currentUsage >= threshold
\* and the dispatch reported success (the write itself may fail, and then
\* nothing is written); after a failed dispatch lastTriggeredAt is
\* unchanged and the alert is still eligible, so the next run evaluates it.
C18_StampOnlyAfterDispatch ==
    job.threw = none =>
        \A i \in 1..Len(visits) :
            visits[i].evaluated =>
                /\ visits[i].failure # "update" =>
                      (~Unstamped(i) <=>
                          (/\ ResultOf(i).currentUsage >= job.batch[i].threshold
                           /\ visits[i].dispatch = "sent"))
                /\ ~Unstamped(i) =>
                      alerts[visits[i].alertId].lastTriggeredAt = visits[i].at
                /\ visits[i].failure = "update" => Unstamped(i)
                /\ visits[i].dispatch = "failed" =>
                      /\ Unstamped(i)
                      /\ alerts[visits[i].alertId].isEnabled
                      /\ Eligible(alerts[visits[i].alertId], now)

\* C18's case: the usage reached the threshold of a webhook alert without
\* a webhookUrl; time has passed since and nothing was written.
C18_Witness ==
    /\ RunComplete /\ Len(visits) >= 1 /\ visits[1].evaluated
    /\ job.batch[1].alertType = "webhook" /\ job.batch[1].webhookUrl = none
    /\ job.results[1].triggered /\ ~job.results[1].notificationSent
    /\ visits[1].dispatch = "failed"
    /\ Unstamped(1)
    /\ now > visits[1].at

\* A store call or the dispatch of the i-th alert's evaluation failed.
FailedWhileEvaluating(i) ==
    visits[i].failure # "none" \/ visits[i].dispatch = "failed"

\* C19 as stated: after the list is read evaluateAllAlerts does not throw;
\* a failure of the usage query, of the dispatch or of the update is
\* recorded in that alert's result.error; every cooldown-eligible alert of
\* the batch is evaluated and has its result.
C19_FailureInResultError ==
    /\ job.threw # "evaluateAlert"
    /\ job.threw = none =>
          /\ ResultsFollowVisits
          /\ \A i \in 1..Len(visits) :
                /\ Eligible(job.batch[i], visits[i].at) => visits[i].evaluated
                /\ (visits[i].evaluated /\ FailedWhileEvaluating(i)) =>
                      ResultOf(i).error # none

\* C19 amended: after the list is read evaluateAllAlerts does not throw; a
\* failure of the usage query or of the update is recorded in that alert's
\* result.error; a failed dispatch is reported as notificationSent:false
\* without an error; every cooldown-eligible alert of the batch is
\* evaluated and has its result.
C19_FailureIsolated ==
    /\ job.threw # "evaluateAlert"
    /\ job.threw = none =>
          /\ ResultsFollowVisits
          /\ \A i \in 1..Len(visits) :
                /\ Eligible(job.batch[i], visits[i].at) => visits[i].evaluated
                /\ (visits[i].evaluated /\ visits[i].failure # "none") =>
                      ResultOf(i).error # none
                /\ (visits[i].evaluated /\ visits[i].dispatch = "failed") =>
                      /\ ResultOf(i).triggered
                      /\ ~ResultOf(i).notificationSent
                      /\ ResultOf(i).error = none

\* C19's case: the usage query of the first alert failed and the second
\* alert was evaluated and notified.
C19_Witness ==
    /\ RunComplete /\ Len(visits) = 2
    /\ visits[1].evaluated /\ visits[1].failure = "usage"
    /\ job.results[1].error # none
    /\ visits[2].evaluated /\ visits[2].dispatch = "sent"
    /\ job.results[2].notificationSent /\ job.results[2].error = none

(***************************************************************************)
(* Reconciliation of an aggregation with its events.                        *)
(***************************************************************************)
\* The events of the aggregation's workspace and period.
PeriodEvents ==
    LET aggregation == GetDocument(aggregations, AggregationId)
    IN {i \in 1..Len(usageEventDocs) :
            /\ usageEventDocs[i].workspaceId = aggregation.workspaceId
            /\ usageEventDocs[i].period = aggregation.period}

\* What event i counts for: its weightedUnits if it is a compute event that
\* has them, else its units.
Counted(i) ==
    IF usageEventDocs[i].resourceType = "compute" /\ usageEventDocs[i].weightedUnits # 0
        THEN usageEventDocs[i].weightedUnits
        ELSE usageEventDocs[i].units

RECURSIVE Total(_, _)
Total(indices, resourceType) ==
    IF indices = {} THEN 0
    ELSE LET i == CHOOSE j \in indices : TRUE
         IN (IF usageEventDocs[i].resourceType = resourceType THEN Counted(i) ELSE 0)
              + Total(indices \ {i}, resourceType)

\* The values recomputed from the period's events, GB in 1/1024 GB.
RecomputedTraffic == Total(PeriodEvents, "traffic") \div MiB
RecomputedStorage == Total(PeriodEvents, "storage") \div MiB
RecomputedCompute == Total(PeriodEvents, "compute")

\* |stored - recomputed| <= bound * tolerance, the tolerance in hundredths.
Within(stored, recomputed, bound, tolerance) ==
    Abs(stored - recomputed) * 100 <= bound * tolerance

\* The stored value, or 1 (in the unit the value is held in) for a stored 0.
StoredOrOne(stored, one) == IF stored = 0 THEN one ELSE stored

\* C20 as stated: absent a store failure, matches is true iff for each of
\* traffic, storage and compute |stored - recomputed| <= stored * tolerance,
\* a stored 0 included.
C20_MatchesWithinStoredTolerance ==
    (call.fn = "assertAggregationMatchesEvents" /\ call.failAt = "none") =>
        LET aggregation == GetDocument(aggregations, AggregationId)
            tolerance == call.options.tolerance
        IN call.outcome.value.matches <=>
             /\ Within(aggregation.trafficTotalGB, RecomputedTraffic,
                       aggregation.trafficTotalGB, tolerance)
             /\ Within(aggregation.storageAvgGB, RecomputedStorage,
                       aggregation.storageAvgGB, tolerance)
             /\ Within(aggregation.computeTotalUnits, RecomputedCompute,
                       aggregation.computeTotalUnits, tolerance)

\* C20 amended: absent a store failure, matches is true iff for each of
\* traffic, storage and compute |stored - recomputed| <= stored * tolerance,
\* where a stored 0 counts as 1 (1 GB, 1 unit); a store failure yields
\* matches:false.
C20_MatchesWithinTolerance ==
    call.fn = "assertAggregationMatchesEvents" =>
        LET aggregation == GetDocument(aggregations, AggregationId)
            tolerance == call.options.tolerance
        IN IF call.failAt # "none" THEN ~call.outcome.value.matches
           ELSE call.outcome.value.matches <=>
                  /\ Within(aggregation.trafficTotalGB, RecomputedTraffic,
                            StoredOrOne(aggregation.trafficTotalGB, 1024), tolerance)
                  /\ Within(aggregation.storageAvgGB, RecomputedStorage,
                            StoredOrOne(aggregation.storageAvgGB, 1024), tolerance)
                  /\ Within(aggregation.computeTotalUnits, RecomputedCompute,
                            StoredOrOne(aggregation.computeTotalUnits, 1), tolerance)

\* C20's case: the stored traffic is 0, the period's events add up to 1 MiB
\* of traffic, and the aggregation matches at the default tolerance.
C20_Witness ==
    /\ call.fn = "assertAggregationMatchesEvents" /\ call.failAt = "none"
    /\ call.options.tolerance = 1
    /\ GetDocument(aggregations, AggregationId).trafficTotalGB = 0
    /\ RecomputedTraffic = 1
    /\ call.outcome.value.matches
(***************************************************************************)
(* The invoice and aggregation invariants.                                  *)
(***************************************************************************)
\* The snapshot the invoice of that id names (none: no invoice, or not set).
SnapshotOf(invoiceId) ==
    IF HasDocument(invoices, invoiceId)
        THEN GetDocument(invoices, invoiceId).aggregationSnapshotId
        ELSE none
\* The snapshot is an aggregation of the collection, and it is finalized.
Finalized(aggregationId) ==
    /\ HasDocument(aggregations, aggregationId)
    /\ GetDocument(aggregations, aggregationId).isFinalized
\* A read of the last assertInvoiceUsageImmutable call failed: the store
\* call threw, or the document was not there.
ReadFailed ==
    \/ call.failAt = 1
    \/ ~HasDocument(invoices, call.options.invoiceId)
    \/ /\ SnapshotOf(call.options.invoiceId) # none
       /\ \/ call.failAt = 2
          \/ ~HasDocument(aggregations, SnapshotOf(call.options.invoiceId))

\* C21: assertInvoiceUsageImmutable returns normally if and only if the
\* invoice is read, names a snapshot, and the aggregation it names is read
\* and finalized; otherwise it throws an InvariantViolationError:
\* INVOICE_USAGE_CHECK_FAILED when a read fails, INVOICE_USAGE_LINK when no
\* snapshot is named, INVOICE_USAGE_IMMUTABLE when the aggregation is not
\* finalized.
C21_InvoiceUsageImmutable ==
    call.fn = "assertInvoiceUsageImmutable" =>
        LET invoiceId == call.options.invoiceId
            snapshot == SnapshotOf(invoiceId)
        IN /\ call.outcome = ReturnedNormally
                <=> (~ReadFailed /\ snapshot # none /\ Finalized(snapshot))
           /\ call.outcome # ReturnedNormally =>
                /\ call.outcome.name = "InvariantViolationError"
                /\ call.outcome.invariant =
                       IF ReadFailed THEN "INVOICE_USAGE_CHECK_FAILED"
                       ELSE IF snapshot = none THEN "INVOICE_USAGE_LINK"
                       ELSE "INVOICE_USAGE_IMMUTABLE"

\* The invoice names an aggregation that is there and not finalized: the
\* call threw INVOICE_USAGE_IMMUTABLE.
C21_Witness ==
    /\ call.fn = "assertInvoiceUsageImmutable"
    /\ HasDocument(aggregations, SnapshotOf(call.options.invoiceId))
    /\ call.outcome = InvariantViolationError("INVOICE_USAGE_IMMUTABLE",
                                              call.options.invoiceId)

\* The invoice breaks the invoice invariant: it names no snapshot, or one
\* that is not finalized.
BreaksInvoiceInvariant(invoice) ==
    \/ invoice.aggregationSnapshotId = none
    \/ ~Finalized(invoice.aggregationSnapshotId)

\* C22: runBillingInvariantChecks (its listing succeeding) returns
\* passed:false with at least one violation whenever some invoice of the
\* account names no snapshot or an aggregation that is not finalized, and
\* passed is true exactly when violations is empty.
C22_BrokenInvoiceReported ==
    (call.fn = "runBillingInvariantChecks" /\ ~call.failAt.list) =>
        LET report == call.outcome.value
        IN /\ (\E i \in invoices :
                  /\ i.billingAccountId = call.options.billingAccountId
                  /\ BreaksInvoiceInvariant(i))
                => (~report.passed /\ report.violations # {})
           /\ report.passed <=> report.violations = {}

\* Some PAID invoice names an aggregation that is missing or not finalized.
PaidInvoiceUnfinalized ==
    \E i \in invoices :
        /\ i.status = "PAID"
        /\ i.aggregationSnapshotId # none
        /\ ~Finalized(i.aggregationSnapshotId)
PaidCheck == call.outcome.value.results[2]
AllPassedIsEveryPassed ==
    call.outcome.value.allPassed
        <=> \A i \in 1..Len(call.outcome.value.results) :
                call.outcome.value.results[i].passed

\* C23 as stated: runCriticalInvariantChecks returns allPassed:false with
\* PAID_INVOICES_FINALIZED passed:false whenever some PAID invoice names an
\* aggregation that is missing or not finalized, and allPassed is true
\* exactly when every result has passed:true.
C23_PaidViolationFailsCheck ==
    call.fn = "runCriticalInvariantChecks" =>
        /\ PaidInvoiceUnfinalized
              => (/\ ~call.outcome.value.allPassed
                  /\ PaidCheck.check = "PAID_INVOICES_FINALIZED"
                  /\ ~PaidCheck.passed)
        /\ AllPassedIsEveryPassed

\* C23, amended: the same when the listing of PAID invoices succeeds, also
\* for an aggregation that cannot be read; when that listing throws,
\* PAID_INVOICES_FINALIZED is passed:true with an error.
C23_PaidViolationFailsCheckWhenListed ==
    call.fn = "runCriticalInvariantChecks" =>
        /\ (/\ ~call.failAt.paid
            /\ \/ PaidInvoiceUnfinalized
               \/ /\ call.failAt.aggregation
                  /\ \E i \in invoices : i.status = "PAID" /\ i.aggregationSnapshotId # none)
              => (/\ ~call.outcome.value.allPassed
                  /\ PaidCheck.check = "PAID_INVOICES_FINALIZED"
                  /\ ~PaidCheck.passed)
        /\ call.failAt.paid => (PaidCheck.passed /\ PaidCheck.error)
        /\ AllPassedIsEveryPassed

\* A PAID invoice names agg2, which is in no collection; every read
\* succeeds and the check fails.
C23_Witness ==
    /\ call.fn = "runCriticalInvariantChecks"
    /\ \A fault \in DOMAIN call.failAt : ~call.failAt[fault]
    /\ \E i \in invoices : i.status = "PAID" /\ i.aggregationSnapshotId = "agg2"
    /\ \A i \in invoices : i.aggregationSnapshotId = "agg1" => Finalized("agg1")
    /\ ~PaidCheck.passed
    /\ ~call.outcome.value.allPassed

\* C24: assertAggregationNotFinalized throws
\* FINALIZED_AGGREGATION_MODIFICATION whenever the stored aggregation has
\* isFinalized true, and returns normally when it is not finalized or not
\* there yet.
C24_FinalizedRejected ==
    call.fn = "assertAggregationNotFinalized" =>
        IF Finalized(call.options.aggregationId)
            THEN call.outcome =
                     InvariantViolationError("FINALIZED_AGGREGATION_MODIFICATION",
                                             call.options.aggregationId)
            ELSE call.outcome = ReturnedNormally

(***************************************************************************)
(* The environment-aware checks and the ownership invariants.               *)
(***************************************************************************)
\* What the claim expects of a violation: the error with the invariant name
\* and the context in development, a normal return in production.
ModeSplit ==
    IF IsDevelopment(mode)
        THEN InvariantViolationError(call.options.invariant, call.options.context)
        ELSE ReturnedNormally

\* C25: checkInvariant returns when the condition is true; when it is false
\* it throws an InvariantViolationError with the invariant name and context
\* in development and returns normally in production; checkInvariantAsync
\* treats a condition function that throws as a violation, with the same
\* split.
C25_ViolationsSplitByMode ==
    /\ call.fn = "checkInvariant" =>
           call.outcome = IF call.options.condition THEN ReturnedNormally ELSE ModeSplit
    /\ (call.fn = "checkInvariantAsync" /\ call.options.conditionFn.kind = "threw") =>
           call.outcome = ModeSplit

\* C26: runOrgInvariantSelfChecks (its listing succeeding) returns
\* passed:false with an ORG_MUST_HAVE_OWNER violation whenever the
\* organization has no OWNER, in every mode.
C26_NoOwnerReported ==
    (/\ call.fn = "runOrgInvariantSelfChecks"
     /\ ~call.failAt.list
     /\ call.options.owners = 0)
    => /\ ~call.outcome.value.passed
       /\ \E v \in call.outcome.value.violations : v.invariantName = "ORG_MUST_HAVE_OWNER"

\* C27: when every removal comes after a validateNotLastOwner that did not
\* throw, an organization with an OWNER keeps one.
C27_OwnerRemains ==
    [][Owners(members, OrganizationId) # {} => Owners(members', OrganizationId) # {}]_vars

(***************************************************************************)
(* A lock call that ends in the error outcome.                              *)
(***************************************************************************)
\* C28: whenever lockBillingCycle returns the error outcome {success:false,
\* alreadyLocked:false, error}, the account's lock fields are as they were
\* before the call: a failed lock attempt does not leave the cycle locked,
\* whichever of the three store calls failed.
C28_FailedLockLeavesNoLock ==
    (/\ seqLog # <<>>
     /\ pc[Caller] = "done"
     /\ seqLog[Len(seqLog)].op = "lock"
     /\ seqLog[Len(seqLog)].result = LockResult(FALSE, FALSE, null, "error"))
    => GetDocument(accounts, BillingAccountId).isBillingCycleLocked
           = seqLog[Len(seqLog)].lockedBefore

(***************************************************************************)
(* The cooldown across runs.                                                *)
(***************************************************************************)
\* C29: across any sequence of non-overlapping evaluateAllAlerts runs, two
\* notifications for the same alert are never dispatched less than 24 hours
\* apart.
C29_NoDispatchWithinCooldown ==
    \A first \in dispatched, second \in dispatched :
        (first.alertId = second.alertId /\ first.at < second.at)
            => second.at - first.at >= COOLDOWN_HOURS

(***************************************************************************)
(* The socket server's map of connected users.                              *)
(***************************************************************************)
\* The connected sockets whose latest successful authentication was as
\* that user.
LiveSockets(userId) ==
    {s \in SocketIds : sockets[s].state = "connected" /\ sockets[s].userId = userId}

\* C30: after any sequence of auth:connect and disconnect events,
\* connectedUsers maps each userId exactly to the non-empty set of connected
\* sockets last authenticated as that user; isUserConnected(u) is true if
\* and only if there is such a socket, and getConnectedUserCount is the
\* number of such users.
C30_ConnectedUsersExact ==
    /\ \A u \in Users :
        /\ IF LiveSockets(u) = {}
               THEN u \notin DOMAIN connectedUsers
               ELSE u \in DOMAIN connectedUsers /\ connectedUsers[u] = LiveSockets(u)
        /\ IsUserConnected(connectedUsers, u) <=> LiveSockets(u) # {}
    /\ DOMAIN connectedUsers \subseteq Users
    /\ GetConnectedUserCount(connectedUsers)
           = Cardinality({u \in Users : LiveSockets(u) # {}})

====
